---- MODULE Spec2Model ----
(***************************************************************************)
(* Model of vimalk78/ebpf-proc-comparison.                                 *)
(*                                                                         *)
(*  - package isolated (hybrid): the per-CPU tracker of active processes   *)
(*    (Init, Track, RemoveTracking, ActiveProcs).                          *)
(*  - ebpf-task-iter monitor: collectAndPrintCPUData and its helpers       *)
(*    (collectCurrentData, calculateUsageData, updateStoredData,           *)
(*    printResults), the sum_cpu_time iterator program, and the older      *)
(*    inline variant of the same tick.                                     *)
(*  - hybrid run loop: the ticker select loop with its 0.1 s guard.        *)
(*                                                                         *)
(* Each component has its own specification over the shared variables.     *)
(***************************************************************************)
EXTENDS Integers, Sequences, FiniteSets, TLC

\* ---------------------------------------------------------------- bounds
MaxPid == 2
MaxTime == 1
MaxCount == 2
MaxCollect == 2
WordBits == 4
MaxInterval == 2
MaxTs == 4
MaxCpu == 1
MaxParts == 2
MaxBody == 2
MaxCallers == 2
MaxCalls == 2

\* CPU 0, which is also what a failed lookup in cpus yields, and one more
CPUs == {0, 1}

\* the processes of the host that the monitor follows
TaskPids == {1, 2}
Pids == 1..MaxPid

\* ------------------------------------------------------- Go map helpers
EmptyMap == [k \in {} |-> 0]

MapPut(m, k, v) == [x \in (DOMAIN m) \cup {k} |-> IF x = k THEN v ELSE m[x]]

MapDelete(m, k) == [x \in (DOMAIN m) \ {k} |-> m[x]]

MapValues(m) == {m[k] : k \in DOMAIN m}

\* -----------------------------------------------------------------------
\* package isolated: tracker of the processes seen on each isolated CPU
\* -----------------------------------------------------------------------
VARIABLES
    procs,      \* map[CPUId]procsTracker
    cpus,       \* map[Pid]CPUId
    panicked,   \* the process died on a write to a nil map
    answer,     \* history: per cpu, the slice (as a set) that the last
                \*   ActiveProcs(cpu) returned, if no Track(cpu,_) or
                \*   RemoveTracking came after it
    streak,     \* history: per cpu, the number of ActiveProcs(cpu) calls
                \*   since the last Track(cpu,_) or RemoveTracking, up to 2
    fresh,      \* history: per cpu, some Track(cpu,_) happened and no
                \*   RemoveTracking came after the latest one
    removed,    \* history: RemoveTracking was called at least once
    since,      \* history: per cpu, the records tracked for it since the
                \*   last ActiveProcs(cpu) and not removed since
    life        \* history: per pid, where it was tracked since its last
                \*   RemoveTracking ("no": nowhere, "one": on cpu only,
                \*   "many": on several CPUs) or, after a RemoveTracking
                \*   that followed "one", "gone" from cpu

trackerVars == <<procs, cpus, panicked, answer, streak, fresh, removed,
                 since, life>>

VARIABLES
    tasks,        \* kernel: the pids (tgid) of the live tasks
    taskTime,     \* kernel: utime + stime of each task
    processMap,   \* kernel: the BPF hash map process_map (pid -> cpu_time)
    processData,  \* monitor: map[uint32]ProcessData kept across collections
    mon,          \* monitor: "setup" in main before monitor is called,
                  \*   "fatal" after log.Fatalf, "init" before the baseline
                  \*   collection, "loop" while selecting on ticker and
                  \*   stopper, "stopped"
    iterOpen,     \* the iterator handles (link.Iter.Open) that are open
    nextIter,     \* the number of iterator handles opened so far
    count,        \* the -count flag
    variant,      \* which of the two programs runs: "helpers" or "inline"
    ncollect,     \* number of collections made so far
    sampledAt,    \* history: per pid in processData, the CPU time its task
                  \*   had consumed when its sample was stored
    out           \* history: what the last collection read, computed and
                  \*   printed

sampleVars == <<tasks, taskTime, processMap, processData, mon, iterOpen,
                nextIter, count, variant, ncollect, sampledAt, out>>

VARIABLES
    loopInterval, \* the -loop-interval flag, in quanta of 50 ms
    oldTs,        \* run: the local oldTs
    lastTs,       \* the time of the latest tick that run received, or the
                  \*   time run started at if it received none yet
    active_procs, \* kernel: the BPF hash map active_procs (tgid -> record)
    ctxDone,      \* cancel() was called
    doneCh,       \* "open" or "closed"
    runPc,        \* run: "none" before it is started, "loop" in the select,
                  \*   "drain" inside GetActiveProcs, "returned"
    mainPc,       \* main: "none" if the program is not run, "boot" while
                  \*   the package variables are initialised, "panic",
                  \*   "ctx" at <-ctx.Done(), "done" at <-doneCh, "exit"
                  \*   after bpfInstance.Close()
    initErr,      \* package ebpf: the error that Instance keeps ("nil" if
                  \*   none)
    cursor,       \* GetActiveProcs: the MapBatchCursor (the last key walked)
    total,        \* GetActiveProcs: the local total
    values,       \* GetActiveProcs: the values slice (the keys slice holds
                  \*   the Pid of each entry)
    tick,         \* history: what run did with the latest tick
    lost,         \* history: the pids of the rows that a GetActiveProcs
                  \*   call deleted from the table and, returning without
                  \*   an error, did not return
    extra,        \* history: the Pid of the entries that a GetActiveProcs
                  \*   call returned more often than it deleted a row
    closes        \* history: the number of bpfInstance.Close() calls

runVars == <<loopInterval, oldTs, lastTs, active_procs, ctxDone, doneCh,
             runPc, mainPc, initErr, cursor, total, values, tick, lost, extra,
             closes>>

VARIABLES
    readErr       \* history, kept by the collections of ReadSpec: what
                  \*   iter.Read returned in the latest collection, "none"
                  \*   if that collection did not reach the read

VARIABLES
    callIn,       \* package proc: what the function under check is given
    callOut       \* package proc: what it returned, NoResult before the call

callVars == <<callIn, callOut>>

VARIABLES
    body,         \* run of the program with the -only-isolated flag: where
                  \*   it is in the body of a tick, and the locals of the body
    calls         \* history: the calls that the body of the latest tick made
                  \*   to package isolated and to proc.ReadPidProcStat

bodyVars == <<body, calls>>

VARIABLES
    once,         \* package ebpf: the sync.Once of Instance: "fresh",
                  \*   "running" its function, or "done"
    instance,     \* package ebpf: the instance that Instance keeps ("nil"
                  \*   if none)
    caller,       \* per goroutine that calls Instance(): where it is in
                  \*   the call, the number of its calls and, history, what
                  \*   its latest call returned
    loads         \* history: how often the load-and-attach sequence started

onceVars == <<once, instance, caller, loads>>

\* what the calls of package isolated leave alone
trackerRest == <<onceVars, sampleVars, runVars, readErr, callVars, bodyVars>>

\* what the monitor and the kernel tasks leave alone
sampleRest == <<onceVars, trackerVars, runVars, readErr, callVars, bodyVars>>

\* what the hybrid run loop and the tracepoint program leave alone
runRest == <<onceVars, trackerVars, sampleVars, readErr, callVars, bodyVars>>

NoAnswer == {[Pid |-> 0, Cpu |-> 0, Comm |-> "none"]}
Untracked == [st |-> "no", cpu |-> 0]

\* comm of the task behind a pid, as bpf_get_current_comm reports it
CommOf(pid) == IF pid % 2 = 1 THEN "sh" ELSE "go"

\* ebpf.ActiveProc as the tracepoint program fills it in
ActiveProc(pid, cpu) == [Pid |-> pid, Cpu |-> cpu, Comm |-> CommOf(pid)]

\* procsTracker{currentProcs: map[Pid]ActiveProc{}, previousProcs: ...}
NewProcsTracker == [currentProcs |-> EmptyMap, previousProcs |-> EmptyMap]

\* procs[cpu] read of a Go map: the zero value (nil maps) for a missing key
ProcsAt(ps, cpu) == IF cpu \in DOMAIN ps THEN ps[cpu] ELSE NewProcsTracker

\* cpus[pid] read of a Go map: 0 for a missing key
CpusAt(cs, pid) == IF pid \in DOMAIN cs THEN cs[pid] ELSE 0

\* Init: allocate both maps of every cpu in the list
InitProcs(ps, isolated) ==
    [c \in (DOMAIN ps) \cup isolated |->
        IF c \in isolated THEN NewProcsTracker ELSE ps[c]]

\* Track: t is a copy of the struct, but t.currentProcs is the same map
TrackProcs(ps, cpu, proc) ==
    [ps EXCEPT ![cpu].currentProcs = MapPut(@, proc.Pid, proc)]

\* RemoveTracking that drops the whole current generation of the cpu
RemoveProcs_DropGeneration(ps, cs, pid) ==
    LET cpu == CpusAt(cs, pid)
    IN  IF cpu \in DOMAIN ps
        THEN [ps EXCEPT ![cpu].currentProcs = EmptyMap]
        ELSE ps

\* RemoveTracking with the cpu looked up after the association is dropped
RemoveProcs_LookupAfterDelete(ps, cs, pid) ==
    LET cpu == CpusAt(MapDelete(cs, pid), pid)
    IN  IF cpu \in DOMAIN ps
        THEN [ps EXCEPT ![cpu].currentProcs = MapDelete(@, pid)]
        ELSE ps

\* RemoveTracking: delete(pt.currentProcs, pid) on the cpu found in cpus
\* (a delete on the nil map of a missing cpu does nothing)
RemoveProcs(ps, cs, pid) ==
    LET cpu == CpusAt(cs, pid)
    IN  IF cpu \in DOMAIN ps
        THEN [ps EXCEPT ![cpu].currentProcs = MapDelete(@, pid)]
        ELSE ps

\* ActiveProcs that answers from the previous generation only
ActiveProcsRet_PreviousOnly(ps, cpu) == MapValues(ProcsAt(ps, cpu).previousProcs)

\* ActiveProcs, the returned slice as a set
ActiveProcsRet(ps, cpu) ==
    LET t == ProcsAt(ps, cpu)
    IN  IF Cardinality(DOMAIN t.currentProcs) # 0
        THEN MapValues(t.currentProcs)
        ELSE MapValues(t.previousProcs)

\* ActiveProcs that empties the shared current map in place after reading it
ActiveProcsStored_ClearInPlace(ps, cpu) ==
    IF cpu \in DOMAIN ps
    THEN [ps EXCEPT ![cpu].currentProcs = EmptyMap]
    ELSE ps

\* ActiveProcs, the tracker left behind: t is a copy of procs[cpu], so the
\* assignments t.previousProcs = t.currentProcs and t.currentProcs = {} change
\* the copy only and procs[cpu] keeps both of its maps
ActiveProcsStored(ps, cpu) == ps

\* isolated.Track(cpu, proc), what it does to the package
TrackCall(cpu, proc) ==
    /\ ~panicked
    /\ IF cpu \notin DOMAIN procs
       THEN \* assignment to an entry of the nil map t.currentProcs
            /\ panicked' = TRUE
            /\ UNCHANGED <<procs, cpus, answer, streak, fresh, removed,
                           since, life>>
       ELSE /\ procs' = TrackProcs(procs, cpu, proc)
            /\ cpus' = MapPut(cpus, proc.Pid, cpu)
            /\ answer' = [answer EXCEPT ![cpu] = NoAnswer]
            /\ streak' = [streak EXCEPT ![cpu] = 0]
            /\ fresh' = [fresh EXCEPT ![cpu] = TRUE]
            /\ since' = [since EXCEPT ![cpu] =
                             {r \in @ : r.Pid # proc.Pid} \cup {proc}]
            /\ life' = [life EXCEPT ![proc.Pid] =
                           IF @.st \in {"no", "gone"} \/ (@.st = "one" /\ @.cpu = cpu)
                           THEN [st |-> "one", cpu |-> cpu]
                           ELSE [st |-> "many", cpu |-> 0]]
            /\ UNCHANGED <<panicked, removed>>

Track(cpu, proc) ==
    /\ TrackCall(cpu, proc)
    /\ UNCHANGED trackerRest

RemoveTracking(pid) ==
    /\ ~panicked
    /\ procs' = RemoveProcs(procs, cpus, pid)
    /\ cpus' = MapDelete(cpus, pid)
    /\ answer' = [c \in CPUs |-> NoAnswer]
    /\ streak' = [c \in CPUs |-> 0]
    /\ fresh' = [c \in CPUs |-> FALSE]
    /\ removed' = TRUE
    /\ since' = [c \in CPUs |-> {r \in since[c] : r.Pid # pid}]
    /\ life' = [life EXCEPT ![pid] =
                   IF @.st = "one" THEN [st |-> "gone", cpu |-> @.cpu]
                   ELSE Untracked]
    /\ UNCHANGED panicked
    /\ UNCHANGED trackerRest

\* isolated.ActiveProcs(cpu), what it does to the package
ActiveProcsCall(cpu) ==
    /\ ~panicked
    /\ answer' = [answer EXCEPT ![cpu] = ActiveProcsRet(procs, cpu)]
    /\ procs' = ActiveProcsStored(procs, cpu)
    /\ streak' = [streak EXCEPT ![cpu] = IF @ = 0 THEN 1 ELSE 2]
    /\ since' = [since EXCEPT ![cpu] = {}]
    /\ UNCHANGED <<cpus, panicked, fresh, removed, life>>

ActiveProcs(cpu) ==
    /\ ActiveProcsCall(cpu)
    /\ UNCHANGED trackerRest

\* the package after run has called isolated.Init(isolatedCPUs)
TrackerStart ==
    /\ \E isolated \in SUBSET CPUs : procs = InitProcs(EmptyMap, isolated)
    /\ cpus = EmptyMap
    /\ panicked = FALSE
    /\ answer = [c \in CPUs |-> NoAnswer]
    /\ streak = [c \in CPUs |-> 0]
    /\ fresh = [c \in CPUs |-> FALSE]
    /\ removed = FALSE
    /\ since = [c \in CPUs |-> {}]
    /\ life = [p \in Pids |-> Untracked]

\* -----------------------------------------------------------------------
\* ebpf-task-iter monitor: the iterator program, the kernel table and the
\* periodic collection (refactored variant with helpers, and the inline
\* variant it was derived from)
\* -----------------------------------------------------------------------
\* uint64 arithmetic, scaled down to WordBits bits
Word == 2 ^ WordBits

Counts == (0 - 1)..MaxCount

Variants == {"helpers", "inline"}

\* /proc/<pid>/exe as getExecutablePath reads it ("" when unreadable)
ExeOf(pid) == IF pid % 2 = 1 THEN "/bin/sh" ELSE ""

NoCollection ==
    [err |-> "nocall", initial |-> FALSE, cur |-> EmptyMap, prev |-> EmptyMap,
     usage |-> <<>>, emitted |-> <<>>, stale |-> {}, late |-> {},
     actual |-> EmptyMap, clearFailed |-> FALSE, missed |-> FALSE,
     handle |-> 0, prevErr |-> "nocall"]

\* sum_cpu_time run once over every task: add to the row of the tgid if it
\* exists, else insert it
IterateTasks(table, ts, time) ==
    [p \in (DOMAIN table) \cup ts |->
        IF p \notin ts THEN table[p]
        ELSE IF p \in DOMAIN table THEN (table[p] + time[p]) % Word
        ELSE time[p]]

\* collectCurrentData after the read: one ProcessData per row of the table
CurrentData(table) ==
    [p \in DOMAIN table |->
        [PID |-> p, CPUTime |-> table[p], LastTime |-> 0,
         Comm |-> CommOf(p), Executable |-> ExeOf(p)]]

\* one ProcessUsage computed from processData[pid] without the exists check:
\* a missing entry reads as the zero ProcessData
UsageOf_NoExistsCheck(pid, current, stored) ==
    [PID |-> pid, TotalTime |-> current.CPUTime,
     CPUDelta |-> IF pid \in DOMAIN stored
                  THEN (current.CPUTime - stored[pid].LastTime) % Word
                  ELSE current.CPUTime,
     Comm |-> current.Comm, Executable |-> current.Executable]

\* one ProcessUsage that reports the cumulative time as the delta
UsageOf_NoSubtraction(pid, current, stored) ==
    [PID |-> pid, TotalTime |-> current.CPUTime,
     CPUDelta |-> IF pid \in DOMAIN stored THEN current.CPUTime ELSE 0,
     Comm |-> current.Comm, Executable |-> current.Executable]

\* one ProcessUsage whose delta is computed after processData[pid] was
\* overwritten with the current sample
UsageOf_AfterUpdate(pid, current, stored) ==
    LET updated == [PID |-> pid, CPUTime |-> current.CPUTime,
                    LastTime |-> current.CPUTime]
    IN  [PID |-> pid, TotalTime |-> current.CPUTime,
         CPUDelta |-> IF pid \in DOMAIN stored
                      THEN (current.CPUTime - updated.LastTime) % Word
                      ELSE 0,
         Comm |-> current.Comm, Executable |-> current.Executable]

\* one ProcessUsage of calculateUsageData; CPUDelta and TotalTime are kept in
\* clock ticks, the code divides both by the same positive clkTck
UsageOf(pid, current, stored) ==
    [PID |-> pid, TotalTime |-> current.CPUTime,
     CPUDelta |-> IF pid \in DOMAIN stored
                  THEN (current.CPUTime - stored[pid].LastTime) % Word
                  ELSE 0,
     Comm |-> current.Comm, Executable |-> current.Executable]

\* every order in which a range over a Go map can append the records
Orders(S) ==
    {f \in [1..Cardinality(S) -> S] :
        \A i, j \in 1..Cardinality(S) : i # j => f[i] # f[j]}

\* what sort.Slice guarantees for less(i, j) = CPUDelta[i] > CPUDelta[j]
SortedByDelta(u) ==
    \A i, j \in 1..Len(u) : i < j => ~(u[j].CPUDelta > u[i].CPUDelta)

\* calculateUsageData without the sort
CalculateUsageData_Unsorted(currentData, stored) ==
    Orders({UsageOf(p, currentData[p], stored) : p \in DOMAIN currentData})

\* calculateUsageData: the slices it can return; the order of records with
\* equal CPUDelta depends on the map iteration order
CalculateUsageData(currentData, stored) ==
    {u \in Orders({UsageOf(p, currentData[p], stored) : p \in DOMAIN currentData}) :
        SortedByDelta(u)}

\* updateStoredData that keeps only the pids of this collection
UpdateStoredData_DropAbsent(stored, currentData) ==
    [p \in DOMAIN currentData |->
        [PID |-> p, CPUTime |-> currentData[p].CPUTime,
         LastTime |-> currentData[p].CPUTime,
         Comm |-> currentData[p].Comm,
         Executable |-> currentData[p].Executable]]

\* updateStoredData
UpdateStoredData(stored, currentData) ==
    [p \in (DOMAIN stored) \cup (DOMAIN currentData) |->
        IF p \in DOMAIN currentData
        THEN [PID |-> p, CPUTime |-> currentData[p].CPUTime,
              LastTime |-> currentData[p].CPUTime,
              Comm |-> currentData[p].Comm,
              Executable |-> currentData[p].Executable]
        ELSE stored[p]]

Min(a, b) == IF a < b THEN a ELSE b

\* the limit of printResults
Limit(n, cnt) == IF cnt > 0 THEN Min(n, cnt) ELSE n

\* printResults with the filter on CPUDelta > 0 switched back on
PrintResults_FilterZero(usageData, cnt) ==
    SelectSeq(SubSeq(usageData, 1, Limit(Len(usageData), cnt)),
              LAMBDA r : r.CPUDelta > 0)

\* printResults that prints count + 1 records
PrintResults_OffByOne(usageData, cnt) ==
    SubSeq(usageData, 1,
           IF cnt > 0 THEN Min(Len(usageData), cnt + 1) ELSE Len(usageData))

\* printResults: the records printed, in order
PrintResults(usageData, cnt) ==
    SubSeq(usageData, 1, Limit(Len(usageData), cnt))

\* the print loop of the inline variant: same limit, but a record is printed
\* only if process.CPUDelta > 0
InlinePrint(usageData, cnt) ==
    SelectSeq(SubSeq(usageData, 1, Limit(Len(usageData), cnt)),
              LAMBDA r : r.CPUDelta > 0)

\* the value of a row that another holder of the table writes
LateValue == 1

\* a bpf map update by another holder of the table (the table is a kernel
\* object that any privileged process can write through its id)
LateWrite(table, late) ==
    [p \in (DOMAIN table) \cup late |->
        IF p \in late THEN LateValue ELSE table[p]]

\* the rows another holder can write during one collection: one at most
LateRows == {{}} \cup {{p} : p \in TaskPids}

\* BatchDelete that empties the table, whatever keys it was given
BatchDelete_ClearAll(table, keys) == EmptyMap

\* ProcessMap.BatchDelete(keys, nil) that deletes every key
BatchDelete(table, keys) == [p \in (DOMAIN table) \ keys |-> table[p]]

\* the CPU time that each sampled task consumed since its sample was stored
ActualSince(stored, time) == [p \in DOMAIN stored |-> time[p] - stored[p]]

\* sampledAt after updateStoredData
Sampled(stored, currentData, time) ==
    [p \in (DOMAIN stored) \cup (DOMAIN currentData) |->
        IF p \in DOMAIN currentData THEN time[p] ELSE stored[p]]

Failed(e, first, cur, prev) ==
    [err |-> e, initial |-> first, cur |-> cur, prev |-> prev,
     usage |-> <<>>, emitted |-> <<>>, stale |-> DOMAIN processMap,
     late |-> {}, actual |-> ActualSince(sampledAt, taskTime),
     clearFailed |-> (e = "delete"),
     missed |-> (out.clearFailed /\ processMap # EmptyMap),
     handle |-> IF e = "open" THEN 0 ELSE nextIter + 1,
     prevErr |-> out.err]

\* a return path that does not close the handle it opened
CloseIter_Leak(open, h) == open

\* defer iter.Close(): the handle is closed when the function returns
CloseIter(open, h) == open \ {h}

\* the open handles after a collection: it.Open failed and opened nothing,
\* or it opened handle h, which the deferred Close closed on return
OpenAfter(outcome, open, h) ==
    IF outcome = "open" THEN open ELSE CloseIter(open \cup {h}, h)

\* the number of handles opened after a collection
OpenedAfter(outcome, n) == IF outcome = "open" THEN n ELSE n + 1

\* processData when updateStoredData is called before the BatchDelete, so
\* that a failed delete returns after the samples were stored
StoredAfter_UpdateBeforeClear(outcome, stored, currentData) ==
    IF outcome \in {"ok", "delete"}
    THEN UpdateStoredData(stored, currentData)
    ELSE stored

\* processData when collectAndPrintCPUData returns: updateStoredData is
\* reached only if no step before it returned an error
StoredAfter(outcome, stored, currentData) ==
    IF outcome = "ok" THEN UpdateStoredData(stored, currentData) ELSE stored

\* collectAndPrintCPUData of the variant with helpers
\*   outcome "open":    it.Open fails
\*   outcome "read":    iter.Read fails with something else than EOF/closed;
\*                      the program may or may not have run over the tasks
\*   outcome "iterate": cpuIter.Err() is set after the table was walked
\*   outcome "delete":  BatchDelete fails after deleting some of the keys
\*   outcome "ok":      everything succeeds
\*   late: the rows that another holder of the table writes after the
\*         walk of the table and before the BatchDelete
CollectAndPrintCPUData(outcome, first, late) ==
    LET ran == IterateTasks(processMap, tasks, taskTime)
        currentData == CurrentData(ran)
        keys == DOMAIN ran
        written == LateWrite(ran, late)
    IN  /\ variant = "helpers"
        /\ ncollect' = ncollect + 1
        /\ nextIter' = OpenedAfter(outcome, nextIter)
        /\ iterOpen' = OpenAfter(outcome, iterOpen, nextIter + 1)
        /\ processData' = StoredAfter(outcome, processData, currentData)
        /\ sampledAt' = IF outcome = "ok"
                        THEN Sampled(sampledAt, currentData, taskTime)
                        ELSE sampledAt
        /\ CASE outcome = "open" ->
                  /\ out' = Failed("open", first, EmptyMap, processData)
                  /\ UNCHANGED processMap
             [] outcome = "read" ->
                  /\ processMap' \in {processMap, ran}
                  /\ out' = Failed("read", first, EmptyMap, processData)
             [] outcome = "iterate" ->
                  /\ processMap' = ran
                  /\ out' = Failed("iterate", first, EmptyMap, processData)
             [] outcome = "delete" ->
                  /\ \E gone \in SUBSET keys :
                        /\ gone # keys
                        /\ processMap' = BatchDelete(written, gone)
                  /\ out' = [Failed("delete", first, currentData, processData)
                                EXCEPT !.late = late]
             [] outcome = "ok" ->
                  /\ processMap' = BatchDelete(written, keys)
                  /\ \E usageData \in CalculateUsageData(currentData, processData) :
                        out' = [err |-> "ok", initial |-> first,
                                cur |-> currentData, prev |-> processData,
                                usage |-> usageData,
                                emitted |-> PrintResults(usageData, count),
                                stale |-> DOMAIN processMap, late |-> late,
                                actual |-> ActualSince(sampledAt, taskTime),
                                clearFailed |-> FALSE,
                                missed |-> (out.clearFailed /\
                                            processMap # EmptyMap),
                                handle |-> nextIter + 1,
                                prevErr |-> out.err]

\* the closure collectAndPrintCPUData of the inline variant: delta and update
\* in one loop, then the clear (only logged when it fails), sort and print.
\* The clear is one Map.Delete(nil): a single delete call with no key, so
\* whether it returns an error ("clearfailed") or not ("ok"), the rows that
\* were read stay in the table.
InlineCollectAndPrint(outcome, first) ==
    LET ran == IterateTasks(processMap, tasks, taskTime)
        currentData == CurrentData(ran)
    IN  /\ variant = "inline"
        /\ ncollect < MaxCollect
        /\ ncollect' = ncollect + 1
        /\ nextIter' = OpenedAfter(outcome, nextIter)
        /\ iterOpen' = OpenAfter(outcome, iterOpen, nextIter + 1)
        /\ CASE outcome = "open" ->
                  /\ out' = Failed("open", first, EmptyMap, processData)
                  /\ UNCHANGED <<processMap, processData, sampledAt>>
             [] outcome = "read" ->
                  /\ processMap' \in {processMap, ran}
                  /\ out' = Failed("read", first, EmptyMap, processData)
                  /\ UNCHANGED <<processData, sampledAt>>
             [] outcome = "iterate" ->
                  /\ processMap' = ran
                  /\ out' = Failed("iterate", first, EmptyMap, processData)
                  /\ UNCHANGED <<processData, sampledAt>>
             [] outcome \in {"ok", "clearfailed"} ->
                  /\ processMap' = ran
                  /\ processData' = UpdateStoredData(processData, currentData)
                  /\ sampledAt' = Sampled(sampledAt, currentData, taskTime)
                  /\ \E usageData \in CalculateUsageData(currentData, processData) :
                        out' = [err |-> "ok", initial |-> first,
                                cur |-> currentData, prev |-> processData,
                                usage |-> usageData,
                                emitted |-> InlinePrint(usageData, count),
                                stale |-> DOMAIN processMap, late |-> {},
                                actual |-> ActualSince(sampledAt, taskTime),
                                clearFailed |-> (outcome = "clearfailed"),
                                missed |-> (out.clearFailed /\
                                            processMap # EmptyMap),
                                handle |-> nextIter + 1,
                                prevErr |-> out.err]

Outcomes == {"open", "read", "iterate", "delete", "ok"}

InlineOutcomes == {"open", "read", "iterate", "clearfailed", "ok"}

\* the steps of main before the monitoring starts, and what can fail there
SetupOutcomes == {"rlimit", "load", "attach", "clktck", "ok"}

\* setupBPF: an error if loading the objects or attaching the iterator fails
setupBPF(outcome) == outcome \in {"load", "attach"}

\* main up to the call of monitor: log.Fatalf on any failure
Main(outcome) ==
    /\ mon = "setup"
    /\ mon' = IF outcome = "rlimit" \/ setupBPF(outcome) \/ outcome = "clktck"
              THEN "fatal"
              ELSE "init"
    /\ UNCHANGED <<tasks, taskTime, processMap, processData, iterOpen,
                   nextIter, count, variant, ncollect, sampledAt, out>>
    /\ UNCHANGED sampleRest

\* monitor: the initial collection that establishes the baseline
InitialCollection ==
    /\ mon = "init"
    /\ mon' = "loop"
    /\ ncollect < MaxCollect
    /\ \E o \in Outcomes, late \in LateRows :
          CollectAndPrintCPUData(o, TRUE, late)
    /\ UNCHANGED <<tasks, taskTime, count, variant>>
    /\ UNCHANGED sampleRest

\* monitor whose loop ends when a collection returns an error
Tick_StopOnError ==
    /\ mon = "loop"
    /\ ncollect < MaxCollect
    /\ \E o \in Outcomes, late \in LateRows :
          CollectAndPrintCPUData(o, FALSE, late)
    /\ mon' = IF out'.err = "ok" THEN "loop" ELSE "stopped"
    /\ UNCHANGED <<tasks, taskTime, count, variant>>
    /\ UNCHANGED sampleRest

\* monitor: case <-ticker.C
Tick ==
    /\ mon = "loop"
    /\ ncollect < MaxCollect
    /\ \E o \in Outcomes, late \in LateRows :
          CollectAndPrintCPUData(o, FALSE, late)
    /\ UNCHANGED <<tasks, taskTime, count, variant, mon>>
    /\ UNCHANGED sampleRest

\* main of the inline variant: the initial collection
InlineInitialCollection ==
    /\ mon = "init"
    /\ mon' = "loop"
    /\ \E o \in InlineOutcomes : InlineCollectAndPrint(o, TRUE)
    /\ UNCHANGED <<tasks, taskTime, count, variant>>
    /\ UNCHANGED sampleRest

\* main of the inline variant: case <-ticker.C
InlineTick ==
    /\ mon = "loop"
    /\ \E o \in InlineOutcomes : InlineCollectAndPrint(o, FALSE)
    /\ UNCHANGED <<tasks, taskTime, count, variant, mon>>
    /\ UNCHANGED sampleRest

\* what iter.Read returns: nil, io.EOF, an error that is os.ErrClosed, or
\* any other error
ReadErrs == {"nil", "EOF", "closed", "other"}

\* a read check that lets only nil and io.EOF pass
ReadFailed_ClosedFails(err) == err # "nil" /\ err # "EOF"

\* err != nil && !errors.Is(err, os.ErrClosed) && err.Error() != "EOF"
ReadFailed(err) == err # "nil" /\ err # "closed" /\ err # "EOF"

\* the step at which collectAndPrintCPUData returns, from the results of
\* its steps in the order in which the code checks them
StepOutcome(openErr, rd, iterErr, delErr) ==
    IF openErr THEN "open"
    ELSE IF ReadFailed(rd) THEN "read"
    ELSE IF iterErr THEN "iterate"
    ELSE IF delErr THEN "delete"
    ELSE "ok"

\* collectAndPrintCPUData given the result of each of its steps; a step
\* that the collection does not reach has no error
CollectWithRead(first, openErr, rd, iterErr, delErr) ==
    /\ openErr => rd = "nil"
    /\ (openErr \/ ReadFailed(rd)) => (~iterErr /\ ~delErr)
    /\ iterErr => ~delErr
    /\ ncollect < MaxCollect
    /\ \E late \in LateRows :
          CollectAndPrintCPUData(StepOutcome(openErr, rd, iterErr, delErr),
                                 first, late)
    /\ readErr' = IF openErr THEN "none" ELSE rd
    /\ UNCHANGED <<tasks, taskTime, count, variant>>
    /\ UNCHANGED <<trackerVars, runVars, callVars, bodyVars, onceVars>>

\* monitor: the initial collection, with the result of each step
ReadInitialCollection ==
    /\ mon = "init"
    /\ mon' = "loop"
    /\ \E openErr \in BOOLEAN, rd \in ReadErrs, iterErr \in BOOLEAN,
          delErr \in BOOLEAN :
          CollectWithRead(TRUE, openErr, rd, iterErr, delErr)

\* monitor: case <-ticker.C, with the result of each step
ReadTick ==
    /\ mon = "loop"
    /\ UNCHANGED mon
    /\ \E openErr \in BOOLEAN, rd \in ReadErrs, iterErr \in BOOLEAN,
          delErr \in BOOLEAN :
          CollectWithRead(FALSE, openErr, rd, iterErr, delErr)

\* the number of collections of a run that is followed for one tick more
LongRun == MaxCollect + 1

\* monitor: the initial collection of the longer run, with no other writer
\* of the table
LongInitialCollection ==
    /\ mon = "init"
    /\ mon' = "loop"
    /\ ncollect < LongRun
    /\ \E o \in Outcomes : CollectAndPrintCPUData(o, TRUE, {})
    /\ UNCHANGED <<tasks, taskTime, count, variant>>
    /\ UNCHANGED sampleRest

\* monitor: case <-ticker.C of the longer run
LongTick ==
    /\ mon = "loop"
    /\ ncollect < LongRun
    /\ \E o \in Outcomes : CollectAndPrintCPUData(o, FALSE, {})
    /\ UNCHANGED <<tasks, taskTime, count, variant, mon>>
    /\ UNCHANGED sampleRest

\* monitor: case <-stopper
Shutdown ==
    /\ mon = "loop"
    /\ mon' = "stopped"
    /\ UNCHANGED <<tasks, taskTime, processMap, processData, iterOpen,
                   nextIter, count, variant, ncollect, sampledAt, out>>
    /\ UNCHANGED sampleRest

\* kernel: a task consumes one unit of CPU time
TaskRun(pid) ==
    /\ mon # "stopped"
    /\ ncollect < MaxCollect
    /\ pid \in tasks
    /\ taskTime[pid] < MaxTime
    /\ taskTime' = [taskTime EXCEPT ![pid] = @ + 1]
    /\ UNCHANGED <<tasks, processMap, processData, mon, iterOpen, nextIter,
                   count, variant, ncollect, sampledAt, out>>
    /\ UNCHANGED sampleRest

\* kernel: the task exits; the iterator program no longer visits it
TaskExit(pid) ==
    /\ mon # "stopped"
    /\ ncollect < MaxCollect
    /\ pid \in tasks
    /\ tasks' = tasks \ {pid}
    /\ UNCHANGED <<taskTime, processMap, processData, mon, iterOpen, nextIter,
                   count, variant, ncollect, sampledAt, out>>
    /\ UNCHANGED sampleRest

\* main of the monitor has parsed its flags
SampleStart ==
    /\ tasks \in SUBSET TaskPids
    /\ taskTime = [p \in TaskPids |-> 0]
    /\ processMap = EmptyMap
    /\ mon = "setup"
    /\ iterOpen = {}
    /\ nextIter = 0
    /\ processData = EmptyMap
    /\ sampledAt = EmptyMap
    /\ count \in Counts
    /\ variant \in Variants
    /\ ncollect = 0
    /\ out = NoCollection
    /\ readErr = "none"

\* the monitor not started
SampleIdle ==
    /\ tasks = {}
    /\ taskTime = [p \in TaskPids |-> 0]
    /\ processMap = EmptyMap
    /\ processData = EmptyMap
    /\ mon = "stopped"
    /\ iterOpen = {}
    /\ nextIter = 0
    /\ count = 0
    /\ variant = "helpers"
    /\ ncollect = 0
    /\ sampledAt = EmptyMap
    /\ out = NoCollection
    /\ readErr = "none"

\* package isolated with no CPU configured
TrackerIdle ==
    /\ procs = EmptyMap
    /\ cpus = EmptyMap
    /\ panicked = FALSE
    /\ answer = [c \in CPUs |-> NoAnswer]
    /\ streak = [c \in CPUs |-> 0]
    /\ fresh = [c \in CPUs |-> FALSE]
    /\ removed = FALSE
    /\ since = [c \in CPUs |-> {}]
    /\ life = [p \in Pids |-> Untracked]

\* -----------------------------------------------------------------------
\* hybrid: main, run and the sched_switch tracepoint program
\* -----------------------------------------------------------------------
\* the 0.1 s of the guard in run, in quanta of 50 ms
MinInterval == 2

\* a kernel worker thread, whose comm starts with "kworker"
KworkerPid == MaxPid + 1

\* the tasks that sched_switch sees: the idle task 0, processes, a kworker
SwitchPids == 0..KworkerPid

\* the CPU of the switches that the run loop is checked against: the Cpu of
\* a row is copied through the drain and read by no branch of run,
\* GetActiveProcs or the shutdown
RunCPUs == {0}

\* the tick record before the first tick
NoTick == [ts |-> 0, gap |-> 0, drained |-> FALSE, reported |-> FALSE,
           num |-> 0, failed |-> FALSE, batches |-> 0, taken |-> {},
           result |-> <<>>]

\* do_update: skip pid 0 and kworkers, insert with BPF_NOEXIST
do_update(table, pid, cpu) ==
    IF pid = 0 \/ pid = KworkerPid \/ pid \in DOMAIN table
    THEN table
    ELSE MapPut(table, pid, ActiveProc(pid, cpu))

\* handle_sched_switch on a cpu: the previous task, then the next one
handle_sched_switch(table, prev, next, cpu) ==
    do_update(do_update(table, prev, cpu), next, cpu)

\* Instance: load the objects, attach the tracepoint program; a nil instance
\* and an error if either fails
Instance(outcome) ==
    [instance |-> IF outcome = "ok" THEN "bpfManager" ELSE "nil",
     initErr |-> IF outcome = "ok" THEN "nil" ELSE outcome]

BootOutcomes == {"load", "attach", "ok"}

\* the length of the keys and values slices: activeProcsMap.MaxEntries(),
\* scaled down to the number of keys that the table can hold here
BufLen == MaxPid

\* a zero keplerActiveProc, as make() fills the values slice
ZeroProc == [Pid |-> 0, Cpu |-> 0, Comm |-> ""]

NoBuffer == [i \in 1..BufLen |-> ZeroProc]

\* the rows of the table whose key lies in lo+1..hi, in key order: the hash
\* buckets that one batch walks
RECURSIVE RowsBetween(_, _, _)
RowsBetween(table, lo, hi) ==
    IF lo >= hi THEN <<>>
    ELSE IF (lo + 1) \in DOMAIN table
         THEN <<table[lo + 1]>> \o RowsBetween(table, lo + 1, hi)
         ELSE RowsBetween(table, lo + 1, hi)

\* one BatchLookupAndDelete(&cursor, keys, values, opts): the kernel walks
\* the buckets from the cursor up to `upto`, copies the rows found to the
\* start of the buffers, deletes them, and moves the cursor; it reports
\* ErrKeyNotExist when it reached the end of the table
BatchLookupAndDelete(table, cur, upto, buf) ==
    LET rows == RowsBetween(table, cur, upto)
    IN  [count |-> Len(rows),
         rows |-> {rows[i] : i \in 1..Len(rows)},
         values |-> [i \in 1..BufLen |->
                        IF i <= Len(rows) THEN rows[i] ELSE buf[i]],
         table |-> [p \in (DOMAIN table) \ ((cur + 1)..upto) |-> table[p]],
         cursor |-> upto,
         err |-> IF upto = MaxPid THEN "ErrKeyNotExist" ELSE "nil"]

\* what GetActiveProcs / GetActiveProcPids returns after the loop:
\* values[:total] (keys[:total])
GetActiveProcs(buf, n) == SubSeq([i \in 1..BufLen |-> buf[i]], 1, n)

\* the number of times pid occurs in a returned slice
Occurrences(result, pid) ==
    Cardinality({i \in 1..Len(result) : result[i].Pid = pid})

\* the pids of the rows taken out of the table that the slice does not hold
NotReturned(taken, result) ==
    {r.Pid : r \in {t \in taken : Occurrences(result, t.Pid) = 0}}

\* the Pid of the entries of the slice that are no row taken out of the
\* table by this call, or that the slice holds twice
NotTaken(taken, result) ==
    {result[i].Pid : i \in {j \in 1..Len(result) :
        \/ result[j] \notin taken
        \/ Occurrences(result, result[j].Pid) > 1}}

\* MustInstance that returns the nil instance instead of panicking
MustInstance_NoPanic(outcome) ==
    /\ mainPc = "boot"
    /\ initErr' = Instance(outcome).initErr
    /\ mainPc' = "ctx"
    /\ runPc' = "loop"
    /\ UNCHANGED <<loopInterval, oldTs, lastTs, active_procs, ctxDone, doneCh,
                   tick, cursor, total, values, lost, extra, closes>>
    /\ UNCHANGED runRest

\* the package-level bpfInstance = ebpf.MustInstance(): panic on an error
MustInstance(outcome) ==
    /\ mainPc = "boot"
    /\ initErr' = Instance(outcome).initErr
    /\ IF initErr' # "nil"
       THEN mainPc' = "panic" /\ UNCHANGED runPc
       ELSE mainPc' = "ctx" /\ runPc' = "loop"
    /\ UNCHANGED <<loopInterval, oldTs, lastTs, active_procs, ctxDone, doneCh,
                   tick, cursor, total, values, lost, extra, closes>>
    /\ UNCHANGED runRest

\* the tracepoint program runs on a context switch, while it is attached.
\* Its two do_update calls are for different tasks and insert under
\* different keys, so a switch from a to b leaves the table as a switch from
\* b to a does: each pair of tasks is taken in one order only.
SchedSwitch(prev, next, cpu) ==
    /\ mainPc \in {"ctx", "done"}
    /\ prev < next
    /\ active_procs' = handle_sched_switch(active_procs, prev, next, cpu)
    /\ UNCHANGED <<initErr, loopInterval, oldTs, lastTs, ctxDone, doneCh, runPc,
                   mainPc, tick, cursor, total, values, lost, extra, closes>>
    /\ UNCHANGED runRest

\* run, case newTs := <-ticker: the tick fired `missed` intervals after the
\* latest one received (the ticker drops ticks for a slow receiver); past the
\* guard, GetActiveProcs is entered and makes its buffers
RunTick(missed) ==
    /\ runPc = "loop"
    /\ LET newTs == lastTs + missed * loopInterval
           timeDiff == newTs - oldTs
       IN  /\ newTs <= MaxTs
           /\ lastTs' = newTs
           /\ IF timeDiff < MinInterval
              THEN /\ tick' = [NoTick EXCEPT !.ts = newTs,
                                             !.gap = newTs - lastTs]
                   /\ UNCHANGED runPc
              ELSE /\ tick' = [NoTick EXCEPT !.ts = newTs,
                                             !.gap = newTs - lastTs,
                                             !.drained = TRUE]
                   /\ runPc' = "drain"
    /\ UNCHANGED <<initErr, loopInterval, oldTs, active_procs, ctxDone, doneCh, mainPc,
                   cursor, total, values, lost, extra, closes>>
    /\ UNCHANGED runRest

\* run inside GetActiveProcs: one turn of the loop around
\* BatchLookupAndDelete. On ErrKeyNotExist the loop ends, the slice is
\* returned and run reads /proc/<pid>/stat for each entry and logs the
\* report; on another error nil is returned, run logs the error and the
\* report of zero processes; else the loop takes another turn.
RunBatch(upto, failed) ==
    /\ runPc = "drain"
    /\ upto \in (cursor + 1)..MaxPid
    /\ LET b == BatchLookupAndDelete(active_procs, cursor, upto, values)
           n == total + b.count
           result == GetActiveProcs(b.values, n)
       IN  /\ active_procs' = b.table
           /\ IF failed
              THEN /\ runPc' = "loop"
                   /\ tick' = [tick EXCEPT !.reported = TRUE, !.failed = TRUE,
                                           !.batches = @ + 1,
                                           !.taken = @ \cup b.rows]
                   /\ cursor' = 0 /\ total' = 0 /\ values' = NoBuffer
                   /\ UNCHANGED <<lost, extra>>
              ELSE IF b.err = "ErrKeyNotExist"
              THEN /\ runPc' = "loop"
                   /\ tick' = [tick EXCEPT !.reported = TRUE, !.num = n,
                                           !.batches = @ + 1,
                                           !.taken = @ \cup b.rows,
                                           !.result = result]
                   /\ lost' = lost \cup NotReturned(tick.taken \cup b.rows, result)
                   /\ extra' = extra \cup NotTaken(tick.taken \cup b.rows, result)
                   /\ cursor' = 0 /\ total' = 0 /\ values' = NoBuffer
              ELSE /\ tick' = [tick EXCEPT !.batches = @ + 1,
                                           !.taken = @ \cup b.rows]
                   /\ cursor' = b.cursor /\ total' = n /\ values' = b.values
                   /\ UNCHANGED <<runPc, lost, extra>>
    /\ UNCHANGED <<initErr, loopInterval, oldTs, lastTs, ctxDone, doneCh, mainPc,
                   closes>>
    /\ UNCHANGED runRest

\* the signal goroutine: <-stopper; cancel()
Signal ==
    /\ mainPc \in {"ctx", "done"}
    /\ ~ctxDone
    /\ ctxDone' = TRUE
    /\ UNCHANGED <<initErr, loopInterval, oldTs, lastTs, active_procs, doneCh, runPc,
                   mainPc, tick, cursor, total, values, lost, extra,
                   closes>>
    /\ UNCHANGED runRest

\* run that returns on cancellation without closing doneCh
RunDone_NoClose ==
    /\ runPc = "loop"
    /\ ctxDone
    /\ runPc' = "returned"
    /\ UNCHANGED <<initErr, loopInterval, oldTs, lastTs, active_procs, ctxDone,
                   doneCh, mainPc, tick, cursor, total, values, lost, extra,
                   closes>>
    /\ UNCHANGED runRest

\* run, case <-ctx.Done(): close(doneCh); return
RunDone ==
    /\ runPc = "loop"
    /\ ctxDone
    /\ doneCh' = "closed"
    /\ runPc' = "returned"
    /\ UNCHANGED <<initErr, loopInterval, oldTs, lastTs, active_procs, ctxDone,
                   mainPc, tick, cursor, total, values, lost, extra,
                   closes>>
    /\ UNCHANGED runRest

\* main: <-ctx.Done()
MainCtxDone ==
    /\ mainPc = "ctx"
    /\ ctxDone
    /\ mainPc' = "done"
    /\ UNCHANGED <<initErr, loopInterval, oldTs, lastTs, active_procs, ctxDone,
                   doneCh, runPc, tick, cursor, total, values, lost,
                   extra, closes>>
    /\ UNCHANGED runRest

\* main that closes the instance without waiting for doneCh
MainClose_NoWait ==
    /\ mainPc = "done"
    /\ mainPc' = "exit"
    /\ closes' = closes + 1
    /\ UNCHANGED <<initErr, loopInterval, oldTs, lastTs, active_procs, ctxDone,
                   doneCh, runPc, tick, cursor, total, values, lost,
                   extra>>
    /\ UNCHANGED runRest

\* main: <-doneCh; bpfInstance.Close()
MainClose ==
    /\ mainPc = "done"
    /\ doneCh = "closed"
    /\ mainPc' = "exit"
    /\ closes' = closes + 1
    /\ UNCHANGED <<initErr, loopInterval, oldTs, lastTs, active_procs, ctxDone,
                   doneCh, runPc, tick, cursor, total, values, lost,
                   extra>>
    /\ UNCHANGED runRest

\* the hybrid program starts: its package variables are being initialised
RunStart ==
    /\ loopInterval \in 1..MaxInterval
    /\ oldTs = 0
    /\ lastTs = 0
    /\ active_procs = EmptyMap
    /\ ctxDone = FALSE
    /\ doneCh = "open"
    /\ runPc = "none"
    /\ mainPc = "boot"
    /\ initErr = "nil"
    /\ tick = NoTick
    /\ cursor = 0
    /\ total = 0
    /\ values = NoBuffer
    /\ lost = {}
    /\ extra = {}
    /\ closes = 0

\* the hybrid program not started
RunIdle ==
    /\ loopInterval = 1
    /\ oldTs = 0
    /\ lastTs = 0
    /\ active_procs = EmptyMap
    /\ ctxDone = FALSE
    /\ doneCh = "open"
    /\ runPc = "none"
    /\ mainPc = "none"
    /\ initErr = "nil"
    /\ tick = NoTick
    /\ cursor = 0
    /\ total = 0
    /\ values = NoBuffer
    /\ lost = {}
    /\ extra = {}
    /\ closes = 0

RunNext ==
    \/ \E o \in BootOutcomes : MustInstance(o)
    \/ \E prev \in SwitchPids, next \in SwitchPids, cpu \in RunCPUs :
          SchedSwitch(prev, next, cpu)
    \/ \E missed \in 1..2 : RunTick(missed)
    \/ \E upto \in Pids, failed \in BOOLEAN : RunBatch(upto, failed)
    \/ Signal
    \/ RunDone
    \/ MainCtxDone
    \/ MainClose

SampleNext ==
    \/ \E o \in SetupOutcomes : Main(o)
    \/ InitialCollection
    \/ Tick
    \/ InlineInitialCollection
    \/ InlineTick
    \/ Shutdown
    \/ \E pid \in TaskPids : TaskRun(pid)

\* -----------------------------------------------------------------------
\* package proc: the parsers of /sys and /proc data
\* -----------------------------------------------------------------------
NoResult == [fn |-> "none"]

\* no function of package proc is under check
CallIdle ==
    /\ callIn = <<>>
    /\ callOut = NoResult

\* what the other programs leave alone
callRest == <<onceVars, trackerVars, sampleVars, runVars, readErr, bodyVars>>

\* strings are sequences of one-character strings
DigitChars == <<"0", "1", "2", "3", "4", "5", "6", "7", "8", "9">>

IsDigit(c) == \E d \in 1..10 : DigitChars[d] = c

DigitValue(c) == (CHOOSE d \in 1..10 : DigitChars[d] = c) - 1

\* strconv.Itoa of a natural number
RECURSIVE Itoa(_)
Itoa(n) ==
    IF n < 10
    THEN <<DigitChars[n + 1]>>
    ELSE Itoa(n \div 10) \o <<DigitChars[(n % 10) + 1]>>

\* the value of a string of digits
RECURSIVE DigitsValue(_)
DigitsValue(str) ==
    IF str = <<>>
    THEN 0
    ELSE DigitsValue(SubSeq(str, 1, Len(str) - 1)) * 10
            + DigitValue(str[Len(str)])

\* strconv.Atoi: an optional sign, then one digit or more
Atoi(str) ==
    LET signed == str # <<>> /\ str[1] \in {"+", "-"}
        digits == IF signed THEN Tail(str) ELSE str
    IN  IF digits = <<>> \/ \E i \in 1..Len(digits) : ~IsDigit(digits[i])
        THEN [err |-> TRUE, val |-> 0]
        ELSE [err |-> FALSE,
              val |-> IF signed /\ str[1] = "-"
                      THEN 0 - DigitsValue(digits)
                      ELSE DigitsValue(digits)]

\* the index of the first sep in str, 0 if there is none
FirstIndex(str, sep) ==
    IF \E i \in 1..Len(str) : str[i] = sep
    THEN CHOOSE i \in 1..Len(str) :
            str[i] = sep /\ \A j \in 1..(i - 1) : str[j] # sep
    ELSE 0

\* strings.Split(str, sep) for a separator of one character
RECURSIVE Split(_, _)
Split(str, sep) ==
    LET i == FirstIndex(str, sep)
    IN  IF i = 0
        THEN <<str>>
        ELSE <<SubSeq(str, 1, i - 1)>>
                \o Split(SubSeq(str, i + 1, Len(str)), sep)

\* strings.SplitN(str, sep, 2)
SplitN2(str, sep) ==
    LET i == FirstIndex(str, sep)
    IN  IF i = 0
        THEN <<str>>
        ELSE <<SubSeq(str, 1, i - 1), SubSeq(str, i + 1, Len(str))>>

\* the loop that appends the CPUs of a range but stops before its end
RangeCPUs_Exclusive(cpuBegin, cpuEnd) ==
    [i \in 1..(cpuEnd - cpuBegin) |-> cpuBegin + i - 1]

\* cpu := cpuBegin; for cpu <= cpuEnd { cpus = append(cpus, cpu); cpu++ }
RangeCPUs(cpuBegin, cpuEnd) ==
    [i \in 1..(cpuEnd - cpuBegin + 1) |-> cpuBegin + i - 1]

\* one iteration of the loop over the parts: the CPUs to append, or an error
PartCPUs(part) ==
    LET cpuRange == SplitN2(part, "-")
    IN  IF Len(cpuRange) = 2
        THEN LET cpuBegin == Atoi(cpuRange[1])
                 cpuEnd == Atoi(cpuRange[2])
             IN  IF cpuBegin.err \/ cpuEnd.err \/ cpuBegin.val >= cpuEnd.val
                 THEN [err |-> TRUE, cpus |-> <<>>]
                 ELSE [err |-> FALSE,
                       cpus |-> RangeCPUs(cpuBegin.val, cpuEnd.val)]
        ELSE LET cpu == Atoi(part)
             IN  IF cpu.err
                 THEN [err |-> TRUE, cpus |-> <<>>]
                 ELSE [err |-> FALSE, cpus |-> <<cpu.val>>]

RECURSIVE PartsCPUs(_)
PartsCPUs(parts) ==
    IF parts = <<>>
    THEN [err |-> FALSE, cpus |-> <<>>]
    ELSE LET first == PartCPUs(Head(parts))
             rest == PartsCPUs(Tail(parts))
         IN  IF first.err \/ rest.err
             THEN [err |-> TRUE, cpus |-> <<>>]
             ELSE [err |-> FALSE, cpus |-> first.cpus \o rest.cpus]

\* getIsolatedCPUsFromStr: err and the list (nil, here <<>>, with an error)
getIsolatedCPUsFromStr(cpuStr) ==
    IF cpuStr = <<>>
    THEN [err |-> FALSE, cpus |-> <<>>]
    ELSE PartsCPUs(Split(cpuStr, ","))

\* the numbers written in the lists: one digit, and one number of two
CpuNums == (0..MaxCpu) \cup {10}

\* the parts of a list of CPUs, by what is written
\*   single a:   "a"
\*   range a b:  "a-b"
\*   badend a:   "a-o"
\*   badbegin a: "o-a"
\*   double a b: "a-b-b"
CpuParts ==
    [kind : {"single", "badend", "badbegin"}, a : CpuNums, b : {0}]
    \cup [kind : {"range", "double"}, a : CpuNums, b : CpuNums]

WritePart(p) ==
    CASE p.kind = "single" -> Itoa(p.a)
      [] p.kind = "range" -> Itoa(p.a) \o <<"-">> \o Itoa(p.b)
      [] p.kind = "badend" -> Itoa(p.a) \o <<"-", "o">>
      [] p.kind = "badbegin" -> <<"o", "-">> \o Itoa(p.a)
      [] p.kind = "double" ->
            Itoa(p.a) \o <<"-">> \o Itoa(p.b) \o <<"-">> \o Itoa(p.b)

\* the parts joined with commas
RECURSIVE WriteList(_)
WriteList(parts) ==
    IF parts = <<>> THEN <<>>
    ELSE IF Len(parts) = 1 THEN WritePart(parts[1])
    ELSE WritePart(parts[1]) \o <<",">> \o WriteList(Tail(parts))

CpuLists == UNION {[1..n -> CpuParts] : n \in 0..MaxParts}

\* a list of CPUs as the kernel or the test writes it
IsolatedStart ==
    /\ callIn \in CpuLists
    /\ callOut = NoResult

\* getIsolatedCPUsFromStr(strings.TrimSpace(data))
GetIsolatedCPUs ==
    /\ callOut = NoResult
    /\ callOut' = [fn |-> "getIsolatedCPUsFromStr",
                   str |-> WriteList(callIn),
                   ret |-> getIsolatedCPUsFromStr(WriteList(callIn))]
    /\ UNCHANGED callIn
    /\ UNCHANGED callRest

\* a token of /proc/stat: a number, or a word such as "cpu0"
NumTok(v) == [num |-> TRUE, val |-> v]

WordTok == [num |-> FALSE, val |-> 0]

\* a line "cpuN user nice system 0 0 0 0": the name and seven columns
StatLine(user, nice, system) ==
    <<WordTok, NumTok(user), NumTok(nice), NumTok(system),
      NumTok(0), NumTok(0), NumTok(0), NumTok(0)>>

StatLines == {StatLine(u, n, s) : u \in 0..MaxTime, n \in 0..MaxTime,
                                  s \in 0..MaxTime}

\* the numCpu arguments
NumCpus == 0..(MaxCpu + 1)

\* the kind arguments: every combination of User, Nice and System
Kinds == 0..7

\* the data: the lines of the file, each the sequence of its tokens
StatData == UNION {[1..n -> StatLines] : n \in 0..(MaxCpu + 2)}

\* the tokens of the lines from the i-th on, in order
RECURSIVE TokensFrom(_, _)
TokensFrom(data, i) ==
    IF i > Len(data) THEN <<>> ELSE data[i] \o TokensFrom(data, i + 1)

\* strings.Fields of each element of strings.SplitN(data, "\n", n): the
\* last element holds all that follows the (n-1)-th newline, and the empty
\* string gives one element without fields
SplitLines(data, n) ==
    IF Len(data) = 0
    THEN <<<<>>>>
    ELSE IF Len(data) < n
    THEN data
    ELSE [i \in 1..n |-> IF i < n THEN data[i] ELSE TokensFrom(data, n)]

\* kind&(1<<i) != 0
BitSet(kind, i) == (kind \div (2 ^ i)) % 2 = 1

\* the loop over fields[1:]: the total, or an error when a selected value is
\* no number
RECURSIVE LineTotal(_, _, _)
LineTotal(fields, kind, i) ==
    IF i + 2 > Len(fields)
    THEN [err |-> FALSE, total |-> 0]
    ELSE LET rest == LineTotal(fields, kind, i + 1)
         IN  IF BitSet(kind, i) /\ ~fields[i + 2].num
             THEN [err |-> TRUE, total |-> 0]
             ELSE IF rest.err
             THEN rest
             ELSE [err |-> FALSE,
                   total |-> rest.total
                               + IF BitSet(kind, i) THEN fields[i + 2].val
                                 ELSE 0]

\* the loop over the lines, from index i on
RECURSIVE StatLoop(_, _, _, _, _)
StatLoop(lines, numCpu, kind, i, cpuTicks) ==
    IF i >= Len(lines) \/ (i > 0 /\ i = numCpu - 1)
    THEN [err |-> FALSE, ticks |-> cpuTicks]
    ELSE IF Len(lines[i + 1]) < 8
    THEN [err |-> TRUE, ticks |-> <<>>]
    ELSE LET t == LineTotal(lines[i + 1], kind, 0)
         IN  IF t.err
             THEN [err |-> TRUE, ticks |-> <<0>>]
             ELSE StatLoop(lines, numCpu, kind, i + 1,
                           [cpuTicks EXCEPT ![i + 1] = t.total])

\* readCpuProcStatFromStr: err and the totals (nil, here <<>>, when a line
\* is missing or invalid)
readCpuProcStatFromStr(numCpu, kind, data) ==
    LET lines == SplitLines(data, numCpu + 1)
    IN  IF Len(lines) < numCpu + 1
        THEN [err |-> TRUE, ticks |-> <<>>]
        ELSE StatLoop(lines, numCpu, kind, 0, [i \in 1..(numCpu + 1) |-> 0])

\* the content of /proc/stat and the arguments of ReadCpuStat
CpuStatStart ==
    /\ callIn \in [numCpu : NumCpus, kind : Kinds, data : StatData]
    /\ callOut = NoResult

\* ReadCpuStat(numCpu, kind)
ReadCpuStat ==
    /\ callOut = NoResult
    /\ callOut' = [fn |-> "readCpuProcStatFromStr",
                   ret |-> readCpuProcStatFromStr(callIn.numCpu, callIn.kind,
                                                  callIn.data)]
    /\ UNCHANGED callIn
    /\ UNCHANGED callRest

\* the names of the entries of a directory, by what is written, in the
\* order of os.ReadDir (sorted by filename)
\*   num n:    the number n in decimal
\*   padded n: the number n in decimal after a "0"
\*   word:     "cpuinfo", "meminfo"
DirEntries ==
    <<[kind |-> "num", n |-> 0],
      [kind |-> "padded", n |-> 1],
      [kind |-> "num", n |-> 1],
      [kind |-> "num", n |-> Word - 1],
      [kind |-> "num", n |-> Word],
      [kind |-> "num", n |-> Word + 1],
      [kind |-> "cpuinfo", n |-> 0],
      [kind |-> "meminfo", n |-> 0]>>

EntryName(e) ==
    CASE e.kind = "num" -> Itoa(e.n)
      [] e.kind = "padded" -> <<"0">> \o Itoa(e.n)
      [] e.kind = "cpuinfo" -> <<"c", "p", "u", "i", "n", "f", "o">>
      [] e.kind = "meminfo" -> <<"m", "e", "m", "i", "n", "f", "o">>

\* strconv.ParseUint(str, 10, bits) that wraps instead of failing
ParseUint_Wraps(str, bits) ==
    IF str = <<>> \/ \E i \in 1..Len(str) : ~IsDigit(str[i])
    THEN [err |-> "ErrSyntax", val |-> 0]
    ELSE [err |-> "nil", val |-> DigitsValue(str) % (2 ^ bits)]

\* strconv.ParseUint(str, 10, bits): digits only, and the value must fit
ParseUint(str, bits) ==
    IF str = <<>> \/ \E i \in 1..Len(str) : ~IsDigit(str[i])
    THEN [err |-> "ErrSyntax", val |-> 0]
    ELSE IF DigitsValue(str) >= 2 ^ bits
    THEN [err |-> "ErrRange", val |-> (2 ^ bits) - 1]
    ELSE [err |-> "nil", val |-> DigitsValue(str)]

\* the loop over the entries, from the i-th on; uint32 has WordBits bits
RECURSIVE ProcPidsLoop(_, _, _)
ProcPidsLoop(de, i, pids) ==
    IF i > Len(de)
    THEN [err |-> FALSE, pids |-> pids]
    ELSE LET pid == ParseUint(de[i], WordBits)
         IN  IF pid.err = "ErrSyntax"
             THEN ProcPidsLoop(de, i + 1, pids)
             ELSE IF pid.err # "nil"
             THEN [err |-> TRUE, pids |-> <<>>]
             ELSE ProcPidsLoop(de, i + 1, Append(pids, pid.val))

\* getProcPidsFromDir, given the names that os.ReadDir returned
getProcPidsFromDir(de) == ProcPidsLoop(de, 1, <<>>)

\* the entries of DirEntries at the positions in chosen, in order
RECURSIVE EntriesAt(_, _)
EntriesAt(chosen, i) ==
    IF i > Len(DirEntries) THEN <<>>
    ELSE (IF i \in chosen THEN <<DirEntries[i]>> ELSE <<>>)
            \o EntriesAt(chosen, i + 1)

\* a directory: some of the entries
ProcDirStart ==
    /\ \E chosen \in SUBSET (1..Len(DirEntries)) :
          callIn = EntriesAt(chosen, 1)
    /\ callOut = NoResult

\* getProcPidsFromDir(dir)
GetProcPids ==
    /\ callOut = NoResult
    /\ callOut' = [fn |-> "getProcPidsFromDir",
                   ret |-> getProcPidsFromDir(
                              [i \in 1..Len(callIn) |-> EntryName(callIn[i])])]
    /\ UNCHANGED callIn
    /\ UNCHANGED callRest

\* -----------------------------------------------------------------------
\* hybrid with the -only-isolated flag: the body of a tick of run
\* -----------------------------------------------------------------------
\* the CPUs of /sys/devices/system/cpu/isolated as the kernel lists them:
\* each once, in ascending order
RECURSIVE CpuList(_)
CpuList(S) ==
    IF S = {} THEN <<>>
    ELSE LET c == CHOOSE x \in S : \A y \in S : x <= y
         IN  <<c>> \o CpuList(S \ {c})

\* a run loop that tracks every drained record, isolated CPU or not
Contains_Any(list, cpu) == TRUE

\* slices.Contains(isolatedCPUs, cpu)
Contains(list, cpu) == \E k \in 1..Len(list) : list[k] = cpu

\* the slices that GetActiveProcs can return
Drains ==
    UNION {[1..n -> {ActiveProc(pid, cpu) : pid \in Pids, cpu \in CPUs}] :
              n \in 0..MaxPid}

NoBody ==
    [pc |-> "none", onlyIsolated |-> FALSE, isolatedCPUs |-> <<>>,
     activeProcs |-> <<>>, failed |-> FALSE, i |-> 0, procsRead |-> 0,
     ticks |-> 0, num |-> 0]

\* this run loop is not running
BodyIdle ==
    /\ body = NoBody
    /\ calls = <<>>

bodyRest == <<onceVars, sampleVars, runVars, readErr, callVars>>

\* run has called isolated.Init(isolatedCPUs) and waits in its select
BodyStart ==
    /\ \E flag \in BOOLEAN :
          body = [NoBody EXCEPT !.pc = "select", !.onlyIsolated = flag,
                                !.isolatedCPUs = CpuList(DOMAIN procs)]
    /\ calls = <<>>

\* a tick whose drain failed and that goes back to the select after
\* logging the error
BodyTick_SkipOnError(result, failed) ==
    /\ body.pc = "select"
    /\ body.ticks < MaxBody
    /\ failed => result = <<>>
    /\ body' = IF failed
               THEN [body EXCEPT !.activeProcs = result, !.failed = failed,
                                 !.procsRead = 0, !.ticks = @ + 1]
               ELSE [body EXCEPT !.pc = "track", !.activeProcs = result,
                                 !.failed = failed, !.i = 1, !.procsRead = 0]
    /\ calls' = <<>>
    /\ UNCHANGED trackerVars
    /\ UNCHANGED bodyRest

\* case newTs := <-ticker, past the guard: GetActiveProcs returns result, or
\* nil and an error, which is logged; procsRead := 0
BodyTick(result, failed) ==
    /\ body.pc = "select"
    /\ body.ticks < MaxBody
    /\ failed => result = <<>>
    /\ body' = [body EXCEPT !.pc = "track", !.activeProcs = result,
                            !.failed = failed, !.i = 1, !.procsRead = 0]
    /\ calls' = <<>>
    /\ UNCHANGED trackerVars
    /\ UNCHANGED bodyRest

\* one turn of the loop over activeProcs, or its end
BodyTrack ==
    /\ body.pc = "track"
    /\ IF body.i > Len(body.activeProcs)
       THEN /\ body' = [body EXCEPT !.pc = IF body.onlyIsolated
                                           THEN "active" ELSE "report",
                                    !.i = 1]
            /\ UNCHANGED calls
            /\ UNCHANGED trackerVars
       ELSE LET activeProc == body.activeProcs[body.i]
            IN  IF body.onlyIsolated
                THEN IF ~Contains(body.isolatedCPUs, activeProc.Cpu)
                     THEN /\ body' = [body EXCEPT !.i = @ + 1]
                          /\ UNCHANGED calls
                          /\ UNCHANGED trackerVars
                     ELSE /\ TrackCall(activeProc.Cpu, activeProc)
                          /\ calls' = Append(calls,
                                        [fn |-> "Track", cpu |-> activeProc.Cpu,
                                         pid |-> activeProc.Pid])
                          /\ body' = [body EXCEPT !.i = @ + 1]
                ELSE /\ calls' = Append(calls,
                                   [fn |-> "ReadPidProcStat", cpu |-> activeProc.Cpu,
                                    pid |-> activeProc.Pid])
                     /\ body' = [body EXCEPT !.i = @ + 1, !.procsRead = @ + 1]
                     /\ UNCHANGED trackerVars
    /\ UNCHANGED bodyRest

\* one turn of the loop over isolatedCPUs, or its end
BodyActive ==
    /\ body.pc = "active"
    /\ IF body.i > Len(body.isolatedCPUs)
       THEN /\ body' = [body EXCEPT !.pc = "report"]
            /\ UNCHANGED calls
            /\ UNCHANGED trackerVars
       ELSE LET isolatedCPU == body.isolatedCPUs[body.i]
            IN  /\ ActiveProcsCall(isolatedCPU)
                /\ calls' = Append(calls,
                              [fn |-> "ActiveProcs", cpu |-> isolatedCPU,
                               pid |-> 0])
                /\ body' = [body EXCEPT
                               !.i = @ + 1,
                               !.procsRead = @ + Cardinality(
                                   ActiveProcsRet(procs, isolatedCPU))]
    /\ UNCHANGED bodyRest

\* log.Info("ActiveProcs", "num", procsRead, ...), and back to the select
BodyReport ==
    /\ body.pc = "report"
    /\ body' = [body EXCEPT !.pc = "select", !.num = body.procsRead,
                            !.ticks = @ + 1]
    /\ UNCHANGED calls
    /\ UNCHANGED trackerVars
    /\ UNCHANGED bodyRest

\* -----------------------------------------------------------------------
\* package ebpf: Instance() called by several goroutines
\* -----------------------------------------------------------------------
Goroutines == 1..MaxCallers

NoPair == [instance |-> "none", initErr |-> "none"]

\* no goroutine has called Instance
OnceIdle ==
    /\ once = "fresh"
    /\ instance = "nil"
    /\ caller = [g \in Goroutines |-> [pc |-> "idle", n |-> 0, ret |-> NoPair]]
    /\ loads = 0

onceRest == <<trackerVars, sampleVars, readErr, callVars, bodyVars>>

\* goroutine g calls Instance() and reaches once.Do
InstanceCall(g) ==
    /\ caller[g].pc = "idle"
    /\ caller[g].n < MaxCalls
    /\ caller' = [caller EXCEPT ![g].pc = "do", ![g].n = @ + 1]
    /\ UNCHANGED <<once, instance, loads, runVars>>
    /\ UNCHANGED onceRest

\* a once.Do that starts the function whenever it has not completed yet,
\* also while another goroutine is running it
OnceDo_NoLock(g) ==
    /\ caller[g].pc = "do"
    /\ once # "done"
    /\ once' = "running"
    /\ caller' = [caller EXCEPT ![g].pc = "init"]
    /\ instance' = "nil"
    /\ initErr' = "nil"
    /\ loads' = loads + 1
    /\ UNCHANGED <<loopInterval, oldTs, lastTs, active_procs, ctxDone, doneCh,
                   runPc, mainPc, cursor, total, values, tick, lost, extra,
                   closes>>
    /\ UNCHANGED onceRest

\* once.Do, first caller: the function starts, instance, initErr = nil, nil.
\* A caller that arrives while the function runs waits in once.Do.
OnceDo(g) ==
    /\ caller[g].pc = "do"
    /\ once = "fresh"
    /\ once' = "running"
    /\ caller' = [caller EXCEPT ![g].pc = "init"]
    /\ instance' = "nil"
    /\ initErr' = "nil"
    /\ loads' = loads + 1
    /\ UNCHANGED <<loopInterval, oldTs, lastTs, active_procs, ctxDone, doneCh,
                   runPc, mainPc, cursor, total, values, tick, lost, extra,
                   closes>>
    /\ UNCHANGED onceRest

\* the function of once.Do: loadKeplerObjects, link.AttachTracing, and the
\* assignment of instance or initErr; once.Do then marks itself done
OnceLoad(g, outcome) ==
    /\ caller[g].pc = "init"
    /\ instance' = Instance(outcome).instance
    /\ initErr' = Instance(outcome).initErr
    /\ once' = "done"
    /\ caller' = [caller EXCEPT ![g].pc = "return"]
    /\ UNCHANGED loads
    /\ UNCHANGED <<loopInterval, oldTs, lastTs, active_procs, ctxDone, doneCh,
                   runPc, mainPc, cursor, total, values, tick, lost, extra,
                   closes>>
    /\ UNCHANGED onceRest

\* once.Do returns at once for a caller that finds it done
OnceSkip(g) ==
    /\ caller[g].pc = "do"
    /\ once = "done"
    /\ caller' = [caller EXCEPT ![g].pc = "return"]
    /\ UNCHANGED <<once, instance, loads, runVars>>
    /\ UNCHANGED onceRest

\* return instance, initErr
InstanceReturn(g) ==
    /\ caller[g].pc = "return"
    /\ caller' = [caller EXCEPT
                     ![g].pc = "idle",
                     ![g].ret = [instance |-> instance, initErr |-> initErr]]
    /\ UNCHANGED <<once, instance, loads, runVars>>
    /\ UNCHANGED onceRest

vars == <<trackerVars, sampleVars, runVars, readErr, callVars, bodyVars, onceVars>>

Init == TrackerStart /\ SampleIdle /\ RunIdle /\ CallIdle /\ BodyIdle /\ OnceIdle

SampleInit == TrackerIdle /\ SampleStart /\ RunIdle /\ CallIdle /\ BodyIdle /\ OnceIdle

RunInit == TrackerIdle /\ SampleIdle /\ RunStart /\ CallIdle /\ BodyIdle /\ OnceIdle

TrackerNext ==
    \/ \E cpu \in CPUs, pid \in Pids : Track(cpu, ActiveProc(pid, cpu))
    \/ \E pid \in Pids : RemoveTracking(pid)
    \/ \E cpu \in CPUs : ActiveProcs(cpu)

TrackerSpec == Init /\ [][TrackerNext]_vars

SampleSpec == SampleInit /\ [][SampleNext]_vars

RunSpec == RunInit /\ [][RunNext]_vars

\* the scheduling of the hybrid program: a goroutine that can take a step
\* takes one; GetActiveProcs goes on until it returns; a select whose
\* ctx.Done() case is ready again and again takes it at some time (the
\* select chooses among its ready cases at random)
RunFairness ==
    /\ WF_vars(\E upto \in Pids, failed \in BOOLEAN : RunBatch(upto, failed))
    /\ SF_vars(RunDone)
    /\ WF_vars(MainCtxDone)
    /\ WF_vars(MainClose)

FairRunSpec == RunInit /\ [][RunNext]_vars /\ RunFairness

\* one of the two programs is run: the monitor or the hybrid program
ProgramInit ==
    /\ TrackerIdle
    /\ \/ SampleStart /\ RunIdle
       \/ SampleIdle /\ RunStart
    /\ CallIdle
    /\ BodyIdle /\ OnceIdle

ProgramNext ==
    \/ \E o \in SetupOutcomes : Main(o)
    \/ InitialCollection
    \/ Tick
    \/ InlineInitialCollection
    \/ InlineTick
    \/ Shutdown
    \/ \E pid \in TaskPids : TaskRun(pid)
    \/ \E o \in BootOutcomes : MustInstance(o)
    \/ \E prev \in SwitchPids, next \in SwitchPids, cpu \in RunCPUs :
          SchedSwitch(prev, next, cpu)
    \/ \E missed \in 1..2 : RunTick(missed)
    \/ \E upto \in Pids, failed \in BOOLEAN : RunBatch(upto, failed)
    \/ Signal
    \/ RunDone
    \/ MainCtxDone
    \/ MainClose

ProgramSpec == ProgramInit /\ [][ProgramNext]_vars

\* the monitor of part_001 started with -count 0, each collection taking the
\* result of each of its steps
ReadInit ==
    /\ TrackerIdle
    /\ SampleStart
    /\ variant = "helpers"
    /\ count = 0
    /\ RunIdle
    /\ CallIdle
    /\ BodyIdle /\ OnceIdle

ReadNext ==
    \/ \E o \in SetupOutcomes : Main(o)
    \/ ReadInitialCollection
    \/ ReadTick
    \/ Shutdown
    \/ \E pid \in TaskPids : TaskRun(pid)

ReadSpec == ReadInit /\ [][ReadNext]_vars

\* the monitor started with -count 0 over tasks that may exit
ChurnInit ==
    /\ TrackerIdle
    /\ SampleStart
    /\ count = 0
    /\ RunIdle
    /\ CallIdle
    /\ BodyIdle /\ OnceIdle

ChurnNext ==
    \/ \E o \in SetupOutcomes : Main(o)
    \/ InitialCollection
    \/ Tick
    \/ InlineInitialCollection
    \/ InlineTick
    \/ Shutdown
    \/ \E pid \in TaskPids : TaskRun(pid)
    \/ \E pid \in TaskPids : TaskExit(pid)

ChurnSpec == ChurnInit /\ [][ChurnNext]_vars

\* getIsolatedCPUsFromStr applied to a list of CPUs
IsolatedInit == TrackerIdle /\ SampleIdle /\ RunIdle /\ IsolatedStart /\ BodyIdle /\ OnceIdle

IsolatedNext ==
    \/ GetIsolatedCPUs

IsolatedSpec == IsolatedInit /\ [][IsolatedNext]_vars

\* readCpuProcStatFromStr applied to the content of /proc/stat
CpuStatInit == TrackerIdle /\ SampleIdle /\ RunIdle /\ CpuStatStart /\ BodyIdle /\ OnceIdle

CpuStatNext ==
    \/ ReadCpuStat

CpuStatSpec == CpuStatInit /\ [][CpuStatNext]_vars

\* getProcPidsFromDir applied to a directory
ProcDirInit == TrackerIdle /\ SampleIdle /\ RunIdle /\ ProcDirStart /\ BodyIdle /\ OnceIdle

ProcDirNext ==
    \/ GetProcPids

ProcDirSpec == ProcDirInit /\ [][ProcDirNext]_vars

\* the monitor of the variant with helpers, -count 0, followed for LongRun
\* collections, the table written by the iterator program only
LongInit ==
    /\ TrackerIdle
    /\ SampleStart
    /\ RunIdle
    /\ CallIdle
    /\ BodyIdle /\ OnceIdle
    /\ variant = "helpers"
    /\ count = 0

LongNext ==
    \/ \E o \in SetupOutcomes : Main(o)
    \/ LongInitialCollection
    \/ LongTick
    \/ Shutdown
    \/ \E pid \in TaskPids : TaskRun(pid)

LongSpec == LongInit /\ [][LongNext]_vars

\* run of the hybrid program with the isolated CPUs, tick after tick
BodyInit ==
    /\ TrackerStart
    /\ SampleIdle
    /\ RunIdle
    /\ CallIdle
    /\ BodyStart
    /\ OnceIdle

BodyNext ==
    \/ \E result \in Drains, failed \in BOOLEAN : BodyTick(result, failed)
    \/ BodyTrack
    \/ BodyActive
    \/ BodyReport

BodySpec == BodyInit /\ [][BodyNext]_vars

\* goroutines that call Instance(), each MaxCalls times at most
OnceInit ==
    /\ TrackerIdle
    /\ SampleIdle
    /\ RunIdle
    /\ CallIdle
    /\ BodyIdle
    /\ OnceIdle

OnceNext ==
    \/ \E g \in Goroutines : InstanceCall(g)
    \/ \E g \in Goroutines : OnceDo(g)
    \/ \E g \in Goroutines, outcome \in BootOutcomes : OnceLoad(g, outcome)
    \/ \E g \in Goroutines : OnceSkip(g)
    \/ \E g \in Goroutines : InstanceReturn(g)

OnceSpec == OnceInit /\ [][OnceNext]_vars

\* C1: an ActiveProcs(cpu) call that follows another ActiveProcs(cpu) call
\* with no Track(cpu,_) or RemoveTracking in between returns the same set of
\* records as that call, and the set is not empty when a Track(cpu,_) came
\* before with no RemoveTracking after it.
C1_Replay ==
    [][\A c \in CPUs :
          (ActiveProcs(c) /\ streak[c] >= 1) =>
              /\ answer'[c] = answer[c]
              /\ fresh[c] => answer'[c] # {}]_vars

C1_Witness ==
    \E c \in CPUs :
        /\ streak[c] = 2
        /\ fresh[c]
        /\ answer[c] = {ActiveProc(1, c)}

\* C2: an ActiveProcs(cpu) call made while the current generation of cpu is
\* not empty returns exactly the records tracked for cpu since the previous
\* ActiveProcs(cpu) call, and leaves previous generation = the returned
\* records and current generation = empty.
C2_SwapOnRead ==
    [][\A c \in DOMAIN procs :
          (ActiveProcs(c) /\ DOMAIN procs[c].currentProcs # {}) =>
              /\ answer'[c] = since[c]
              /\ MapValues(procs'[c].previousProcs) = answer'[c]
              /\ procs'[c].currentProcs = EmptyMap]_vars

\* C3: once a pid that was tracked on exactly one CPU c has been removed, no
\* ActiveProcs(c) answer contains it until it is tracked again, and the
\* pid-to-cpu association has no entry for it.
C3_Eviction ==
    [][\A p \in Pids :
          life'[p].st = "gone" =>
              /\ p \notin DOMAIN cpus'
              /\ ActiveProcs(life'[p].cpu) =>
                     \A r \in answer'[life'[p].cpu] : r.Pid # p]_vars

C3_Witness ==
    \E p \in Pids :
        /\ life[p].st = "gone"
        /\ life[p].cpu # 0
        /\ streak[life[p].cpu] >= 1
        /\ answer[life[p].cpu] # {}
        /\ \A r \in answer[life[p].cpu] : r.Pid # p

\* C4: as long as RemoveTracking was never called, ActiveProcs(cpu) returns
\* a non-empty set if some Track(cpu,_) happened since Init and the empty set
\* for a configured CPU on which nothing was tracked.
C4_NonEmptyIffTracked ==
    [][\A c \in CPUs :
          (ActiveProcs(c) /\ ~removed) =>
              /\ fresh[c] => answer'[c] # {}
              /\ (c \in DOMAIN procs /\ ~fresh[c]) => answer'[c] = {}]_vars

C4_Witness ==
    \E c \in CPUs, d \in DOMAIN procs :
        /\ ~removed
        /\ fresh[c] /\ streak[c] = 2 /\ answer[c] # {}
        /\ ~fresh[d] /\ streak[d] >= 1 /\ answer[d] = {}

\* the number of records the count flag lets through, out of n
Allowed(n) == IF count > 0 THEN (IF n < count THEN n ELSE count) ELSE n

\* C5: in a successful collection, a pid that has a stored sample and whose
\* cumulative time is at least the stored LastTime gets the delta
\* cumulative - LastTime (in clock ticks), which is not negative.
C5_DeltaFormula ==
    out.err = "ok" =>
        \A i \in 1..Len(out.usage) :
            LET p == out.usage[i].PID
            IN  (p \in DOMAIN out.prev
                    /\ out.cur[p].CPUTime >= out.prev[p].LastTime) =>
                    /\ out.usage[i].CPUDelta
                          = out.cur[p].CPUTime - out.prev[p].LastTime
                    /\ out.usage[i].CPUDelta >= 0

C5_Witness ==
    /\ out.err = "ok"
    /\ \E i \in 1..Len(out.usage) :
          LET p == out.usage[i].PID
          IN  /\ p \in DOMAIN out.prev
              /\ out.prev[p].LastTime > 0
              /\ out.cur[p].CPUTime > out.prev[p].LastTime
              /\ out.usage[i].CPUDelta = 1

\* C6: in a successful collection, a pid with no stored sample gets delta 0
\* whatever its cumulative time, and its total is the cumulative time (in
\* clock ticks); every record of the baseline collection has delta 0.
C6_FirstSeenZero ==
    out.err = "ok" =>
        /\ \A p \in DOMAIN out.cur : \E i \in 1..Len(out.usage) :
              out.usage[i].PID = p
        /\ \A i \in 1..Len(out.usage) :
              LET p == out.usage[i].PID
              IN  /\ p \notin DOMAIN out.prev =>
                        /\ out.usage[i].CPUDelta = 0
                        /\ out.usage[i].TotalTime = out.cur[p].CPUTime
                  /\ out.initial => out.usage[i].CPUDelta = 0

C6_Witness ==
    /\ out.err = "ok"
    /\ ~out.initial
    /\ \E i \in 1..Len(out.usage) :
          /\ out.usage[i].PID \notin DOMAIN out.prev
          /\ out.usage[i].CPUDelta = 0
          /\ out.usage[i].TotalTime = MaxTime

\* C7 (as claimed): the usage records of a collection are ordered by
\* descending delta, and by ascending pid among equal deltas.
C7_OrderedByDeltaThenPid ==
    out.err = "ok" =>
        \A i, j \in 1..Len(out.usage) :
            i < j =>
                \/ out.usage[i].CPUDelta > out.usage[j].CPUDelta
                \/ /\ out.usage[i].CPUDelta = out.usage[j].CPUDelta
                   /\ out.usage[i].PID < out.usage[j].PID

\* C7 (amended): the usage records of a collection are ordered by
\* non-increasing delta; the order among equal deltas is not fixed.
C7_OrderedByDelta ==
    out.err = "ok" =>
        \A i, j \in 1..Len(out.usage) :
            i < j => out.usage[i].CPUDelta >= out.usage[j].CPUDelta

C7_Witness ==
    /\ out.err = "ok"
    /\ Len(out.usage) = 2
    /\ out.usage[1].CPUDelta > out.usage[2].CPUDelta
    /\ out.usage[1].PID > out.usage[2].PID

\* C8: printResults prints min(n, count) of the n usage records when
\* count > 0 and all n when count = 0; what it prints is the head of the
\* sorted slice, so no record left out has a larger delta than a printed one.
C8_Truncation ==
    (out.err = "ok" /\ variant = "helpers") =>
        LET n == Len(out.usage)
            k == Len(out.emitted)
        IN  /\ count > 0 => k = (IF n < count THEN n ELSE count)
            /\ count = 0 => k = n
            /\ \A i \in 1..k : out.emitted[i] = out.usage[i]
            /\ \A i \in 1..k : \A j \in (k + 1)..n :
                  out.usage[j].CPUDelta <= out.usage[i].CPUDelta

C8_Witness ==
    /\ out.err = "ok"
    /\ variant = "helpers"
    /\ count = 1
    /\ Len(out.usage) = 2
    /\ Len(out.emitted) = 1
    /\ out.usage[2].CPUDelta < out.emitted[1].CPUDelta

\* C9 (as claimed): a pid seen for the first time is among the printed
\* records with delta 0, unless the count flag cuts it off.
C9_FirstSeenEmitted ==
    out.err = "ok" =>
        \A i \in 1..Len(out.usage) :
            (out.usage[i].PID \notin DOMAIN out.prev
                /\ i <= Allowed(Len(out.usage))) =>
                \E j \in 1..Len(out.emitted) :
                    /\ out.emitted[j].PID = out.usage[i].PID
                    /\ out.emitted[j].CPUDelta = 0

\* C9 (amended): in the monitor that prints through printResults, a pid seen
\* for the first time is among the printed records with delta 0, unless the
\* count flag cuts it off.
C9_FirstSeenEmittedByPrintResults ==
    (out.err = "ok" /\ variant = "helpers") =>
        \A i \in 1..Len(out.usage) :
            (out.usage[i].PID \notin DOMAIN out.prev
                /\ i <= Allowed(Len(out.usage))) =>
                \E j \in 1..Len(out.emitted) :
                    /\ out.emitted[j].PID = out.usage[i].PID
                    /\ out.emitted[j].CPUDelta = 0

C9_Witness ==
    /\ out.err = "ok"
    /\ variant = "helpers"
    /\ ~out.initial
    /\ count = 1
    /\ Len(out.usage) = 2
    /\ Len(out.emitted) = 1
    /\ out.emitted[1].PID \notin DOMAIN out.prev
    /\ out.emitted[1].CPUDelta = 0

\* C10: every tick of the hybrid run loop that fires less than the minimum
\* interval (0.1 s) after the previous tick is skipped entirely (no drain,
\* no report), and every tick that fires at least 0.1 s after the previous
\* tick is processed.
C10_MinIntervalGuard ==
    tick.ts > 0 =>
        /\ tick.gap < MinInterval => (~tick.drained /\ ~tick.reported)
        /\ tick.gap >= MinInterval => tick.drained

\* C11: after a successful collectAndPrintCPUData (the one that clears with
\* BatchDelete) no row whose key was read in this tick is left in the table,
\* and a row whose key was not read, written after the walk of the table and
\* before the clear, is still in the table.
C11_ClearDeletesKeysRead ==
    (out.err = "ok" /\ variant = "helpers") =>
        /\ DOMAIN out.cur \cap DOMAIN processMap = {}
        /\ \A p \in out.late \ DOMAIN out.cur :
              p \in DOMAIN processMap /\ processMap[p] = LateValue

C11_Witness ==
    /\ out.err = "ok"
    /\ variant = "helpers"
    /\ DOMAIN out.cur # {}
    /\ out.late \ DOMAIN out.cur # {}
    /\ out.late \subseteq DOMAIN processMap

\* C12: if the clear of a tick failed and rows stayed in the kernel table,
\* the next tick still reports for each of these pids a cpuDelta equal to the
\* CPU time the process consumed since its previous sample.
C12_NoDoubleCounting ==
    (out.err = "ok" /\ out.missed) =>
        \A i \in 1..Len(out.usage) :
            LET r == out.usage[i]
            IN  (r.PID \in out.stale /\ r.PID \in DOMAIN out.prev /\ r.PID \in tasks)
                    => r.CPUDelta = out.actual[r.PID]

\* C13: a tick whose table-clear step failed is not aborted: it still
\* computes the deltas, updates the stored samples and emits its report.
C13_ClearFailureNotFatal ==
    out.clearFailed =>
        /\ out.err = "ok"
        /\ Len(out.usage) = Cardinality(DOMAIN out.cur)
        /\ processData = UpdateStoredData(out.prev, out.cur)

\* C15: when collectAndPrintCPUData fails at any step (iterator open,
\* iterator read, table iteration, batch delete), it emits no report and
\* leaves the stored samples exactly as they were before the call.
C15_FailedTickChangesNothing ==
    out.err \in {"open", "read", "iterate", "delete"} =>
        /\ out.emitted = <<>>
        /\ out.usage = <<>>
        /\ processData = out.prev

\* a tick failed at the batch delete, after rows of sampled processes with
\* new CPU time had been read
C15_Witness ==
    /\ out.err = "delete"
    /\ ~out.initial
    /\ processData # EmptyMap
    /\ \E p \in DOMAIN out.cur :
          p \in DOMAIN processData /\ out.cur[p].CPUTime # processData[p].LastTime

\* C20: every collection that gets past it.Open reads from a handle opened in
\* that same collection, never from one opened earlier, and has closed it when
\* it returns, on the success path and on every error path; no handle stays
\* open between ticks, so at most one is ever open.
C20_FreshIteratorPerTick ==
    [][(ncollect' = ncollect + 1) =>
          /\ iterOpen' = {}
          /\ out'.err # "open" =>
                /\ out'.handle \notin 1..nextIter
                /\ out'.handle = nextIter'
          /\ out'.err = "open" => (out'.handle = 0 /\ nextIter' = nextIter)]_vars

\* a second collection opened its own handle, after a first one that had
\* opened one too and failed
C20_Witness ==
    /\ ncollect = 2
    /\ out.prevErr \in {"read", "iterate", "delete"}
    /\ out.err = "ok"
    /\ out.handle = 2
    /\ iterOpen = {}

\* C17: in the hybrid program run returns only from its select, between two
\* ticks, and only after cancellation; bpfInstance.Close() is called at most
\* once, and only after run has closed doneCh and returned, so no drain is in
\* progress or starts once Close has been called.
C17_OrderlyShutdown ==
    /\ [](/\ closes <= 1
          /\ closes = 1 => (runPc = "returned" /\ doneCh = "closed"))
    /\ [][/\ (runPc # "returned" /\ runPc' = "returned") =>
                (runPc = "loop" /\ ctxDone)
          /\ (runPc = "drain" \/ runPc' = "drain") =>
                (closes = 0 /\ closes' = 0)
          /\ closes' # closes => (closes' = 1 /\ doneCh = "closed")]_vars

\* Close was called after a run in which the cancellation came while a drain
\* had already returned a report
C17_Witness ==
    /\ mainPc = "exit"
    /\ closes = 1
    /\ runPc = "returned"
    /\ tick.reported
    /\ tick.num > 0

\* C18: with concurrent inserts by the tracepoint program, every row that a
\* GetActiveProcs call took out of the table is in the slice of that call,
\* once, when the call returns without an error; calls return nothing else.
\* (A row not taken stays in the table for a later call.)
C18_ExactlyOnce ==
    /\ lost = {}
    /\ extra = {}

\* C19: a drain that takes several BatchLookupAndDelete batches returns the
\* union of the rows of its batches: as many entries as the batches counted,
\* each one a row deleted by a batch of this call, none twice.
C19_MultiBatchUnion ==
    (tick.reported /\ ~tick.failed /\ tick.batches >= 2) =>
        /\ Len(tick.result) = Cardinality(tick.taken)
        /\ {tick.result[i] : i \in 1..Len(tick.result)} = tick.taken

\* C14: a collection that returns an error, whatever the step that failed,
\* leaves the monitor waiting in its loop, which it leaves only on the
\* shutdown signal; a drain of the hybrid run loop that returns an error
\* takes run back to its select, which it leaves only on cancellation.
C14_LoopSurvivesFailures ==
    [][/\ (ncollect' # ncollect) => mon' = "loop"
       /\ (mon = "loop" /\ mon' # "loop") =>
             (mon' = "stopped" /\ ncollect' = ncollect /\ out' = out)
       /\ (runPc = "drain" /\ runPc' # "drain") => runPc' = "loop"
       /\ (runPc = "loop" /\ runPc' = "returned") => ctxDone]_vars

\* a tick ran a collection to its end after the collection before it had
\* failed
C14_Witness ==
    /\ out.prevErr \in {"open", "read", "iterate", "delete"}
    /\ ~out.initial
    /\ out.err = "ok"
    /\ mon = "loop"

\* C16: after a failure to load or attach the kernel program the process
\* aborts at startup: the hybrid program keeps the error, panics and never
\* starts run, drains or reports; the monitor exits before its first
\* collection.
C16_FatalStartup ==
    /\ [](initErr # "nil" =>
             /\ mainPc = "panic"
             /\ runPc = "none"
             /\ tick = NoTick
             /\ active_procs = EmptyMap
             /\ closes = 0)
    /\ [](mon = "fatal" =>
             /\ ncollect = 0
             /\ out = NoCollection
             /\ nextIter = 0
             /\ processMap = EmptyMap
             /\ processData = EmptyMap)
    /\ [][(mon = "fatal" => mon' = "fatal")
          /\ (mainPc = "panic" => mainPc' = "panic")]_vars

C16_Witness ==
    /\ initErr = "attach"
    /\ mainPc = "panic"

\* C21: a collection whose iter.Read returned nil, end of data or closed
\* goes on to walk the table (it ends in success or in the failure of a
\* later step); one whose iter.Read returned any other error returns the
\* read error, has collected no row, removes no row of the table and leaves
\* the stored samples as they were.
C21_ReadClassification ==
    /\ [](/\ readErr \in {"nil", "EOF", "closed"} =>
                out.err \in {"iterate", "delete", "ok"}
          /\ readErr = "other" => (out.err = "read" /\ out.cur = EmptyMap)
          /\ out.err = "read" => readErr = "other")
    /\ [][(ncollect' # ncollect /\ readErr' = "other") =>
             /\ DOMAIN processMap \subseteq DOMAIN processMap'
             /\ processData' = processData]_vars

\* a tick whose read ended with closed went on and collected a row
C21_Witness ==
    /\ readErr = "closed"
    /\ ~out.initial
    /\ out.err = "ok"
    /\ out.cur # EmptyMap

\* C22: after a successful collection every pid that it read is stored
\* with LastTime equal to the cumulative value just read, every stored
\* entry of a pid that it did not read is what it was before, and no step
\* of the program ever removes a stored entry.
C22_StoredAfterTick ==
    /\ [](out.err = "ok" =>
             /\ \A p \in DOMAIN out.cur :
                   /\ p \in DOMAIN processData
                   /\ processData[p].LastTime = out.cur[p].CPUTime
             /\ \A p \in (DOMAIN out.prev) \ (DOMAIN out.cur) :
                   /\ p \in DOMAIN processData
                   /\ processData[p] = out.prev[p]
             /\ DOMAIN processData = (DOMAIN out.prev) \cup (DOMAIN out.cur))
    /\ [][DOMAIN processData \subseteq DOMAIN processData']_vars

\* a successful tick read a stored pid with a new cumulative value and did
\* not read another stored pid, whose task had exited
C22_Witness ==
    /\ out.err = "ok"
    /\ ~out.initial
    /\ \E p \in (DOMAIN out.prev) \ (DOMAIN out.cur) : p \notin tasks
    /\ \E q \in (DOMAIN out.prev) \cap (DOMAIN out.cur) :
          out.cur[q].CPUTime # out.prev[q].LastTime

\* C23: for a list whose parts are each one number or a range a-b with
\* a < b, getIsolatedCPUsFromStr returns no error and the CPUs in the order of
\* the parts, each range giving a, a+1, ..., b; for the empty string it
\* returns the empty list; for a list with a part that has a bound that is
\* no number or that has two '-' it returns an error and no list.
C23_IsolatedCPUs ==
    callOut.fn = "getIsolatedCPUsFromStr" =>
        LET good(p) == p.kind = "single" \/ (p.kind = "range" /\ p.a < p.b)
            bad(p) == p.kind \in {"badend", "badbegin", "double"}
            size(p) == IF p.kind = "single" THEN 1 ELSE p.b - p.a + 1
            RECURSIVE before(_)
            before(k) == IF k = 1 THEN 0
                         ELSE before(k - 1) + size(callIn[k - 1])
            n == Len(callIn)
            ret == callOut.ret
        IN  /\ (\A k \in 1..n : good(callIn[k])) =>
                  /\ ~ret.err
                  /\ Len(ret.cpus) = before(n + 1)
                  /\ \A k \in 1..n : \A i \in 1..size(callIn[k]) :
                        ret.cpus[before(k) + i] = callIn[k].a + i - 1
            /\ callOut.str = <<>> => (~ret.err /\ ret.cpus = <<>>)
            /\ (\E k \in 1..n : bad(callIn[k])) =>
                  (ret.err /\ ret.cpus = <<>>)

\* "0-1,10" was parsed
C23_Witness ==
    /\ callOut.fn = "getIsolatedCPUsFromStr"
    /\ callOut.str = <<"0", "-", "1", ",", "1", "0">>
    /\ callOut.ret = [err |-> FALSE, cpus |-> <<0, 1, 10>>]

\* C24: for data of at least numCpu + 1 lines readCpuProcStatFromStr returns
\* no error and numCpu + 1 totals, the i-th (from 0) being the sum of the
\* columns of the i-th line that the bits of kind select; for data of fewer
\* lines it returns an error.
C24_CpuStatTotals ==
    callOut.fn = "readCpuProcStatFromStr" =>
        LET numCpu == callIn.numCpu
            data == callIn.data
            col(i, k) == IF BitSet(callIn.kind, k) THEN data[i][k + 2].val ELSE 0
            ret == callOut.ret
        IN  /\ Len(data) >= numCpu + 1 =>
                  /\ ~ret.err
                  /\ Len(ret.ticks) = numCpu + 1
                  /\ \A i \in 1..(numCpu + 1) :
                        ret.ticks[i] = col(i, 0) + col(i, 1) + col(i, 2)
            /\ Len(data) < numCpu + 1 => ret.err

\* C25 (as claimed): getProcPidsFromDir returns, without error, exactly the
\* entries whose names are decimal numbers that fit in uint32, each once,
\* whatever else the directory holds.
C25_ProcPids ==
    callOut.fn = "getProcPidsFromDir" =>
        LET fits == {i \in 1..Len(callIn) :
                        callIn[i].kind \in {"num", "padded"} /\ callIn[i].n < Word}
            ret == callOut.ret
        IN  /\ ~ret.err
            /\ Len(ret.pids) = Cardinality(fits)
            /\ \A i \in fits :
                  ret.pids[Cardinality({j \in fits : j <= i})] = callIn[i].n

\* C25 (amended): when no entry has a decimal name that does not fit in
\* uint32, getProcPidsFromDir returns, without error, exactly the entries
\* with decimal names, each once, and skips the others; when some entry has
\* a decimal name that does not fit, it returns an error and no list.
C25_ProcPidsUnlessRange ==
    callOut.fn = "getProcPidsFromDir" =>
        LET fits == {i \in 1..Len(callIn) :
                        callIn[i].kind \in {"num", "padded"} /\ callIn[i].n < Word}
            large == {i \in 1..Len(callIn) :
                        callIn[i].kind \in {"num", "padded"} /\ callIn[i].n >= Word}
            ret == callOut.ret
        IN  /\ large = {} =>
                  /\ ~ret.err
                  /\ Len(ret.pids) = Cardinality(fits)
                  /\ \A i \in fits :
                        ret.pids[Cardinality({j \in fits : j <= i})] = callIn[i].n
            /\ large # {} => (ret.err /\ ret.pids = <<>>)

\* the directory held 1, the largest pid, cpuinfo and meminfo
C25_Witness ==
    /\ callOut.fn = "getProcPidsFromDir"
    /\ Len(callIn) = 4
    /\ callIn[3].kind = "cpuinfo"
    /\ callIn[4].kind = "meminfo"
    /\ callOut.ret = [err |-> FALSE, pids |-> <<1, Word - 1>>]

\* C26: in every collection that computes deltas, the cumulative value read
\* for a pid with a stored sample is at least the stored LastTime, so the
\* unsigned subtraction does not wrap - also after collections that failed
\* when the iterator program had already run and left rows in the table.
C26_NoWrap ==
    out.err = "ok" =>
        \A pid \in (DOMAIN out.cur) \cap (DOMAIN out.prev) :
            out.cur[pid].CPUTime >= out.prev[pid].LastTime

\* C27: once the shutdown signal has cancelled the context, run reaches its
\* select, closes doneCh and returns, and main, having waited for both,
\* calls Close and exits: no goroutine waits for ever.
C27_ShutdownLiveness ==
    /\ ctxDone ~> (runPc = "returned" /\ doneCh = "closed")
    /\ ctxDone ~> (mainPc = "exit" /\ closes = 1)

\* the program has exited after a signal, the latest tick of run having
\* drained the table in two batches
C27_Witness ==
    /\ ctxDone
    /\ doneCh = "closed"
    /\ mainPc = "exit"
    /\ tick.batches >= 2

\* C28: the records of a successful collection are computed against
\* processData as it was when the collection started, and processData is
\* overwritten with the values read only then; it changes in no other step,
\* so it holds what the previous successful collection left. A pid whose
\* value read is d above its stored LastTime reports d, not 0.
C28_DeltaBeforeUpdate ==
    /\ [][(ncollect' # ncollect /\ out'.err = "ok") =>
             /\ \A i \in 1..Len(out'.usage) :
                   LET r == out'.usage[i]
                       cur == out'.cur[r.PID].CPUTime
                   IN  r.PID \in DOMAIN processData =>
                          /\ r.CPUDelta
                                = (cur - processData[r.PID].LastTime) % Word
                          /\ cur > processData[r.PID].LastTime =>
                                /\ r.CPUDelta = cur - processData[r.PID].LastTime
                                /\ r.CPUDelta # 0
             /\ \A pid \in DOMAIN out'.cur :
                   /\ pid \in DOMAIN processData'
                   /\ processData'[pid].LastTime = out'.cur[pid].CPUTime]_vars
    /\ [][processData' # processData =>
             (ncollect' # ncollect /\ out'.err = "ok")]_vars

\* a tick after a successful baseline read a value above the stored one for
\* a pid and stored it
C28_Witness ==
    /\ out.err = "ok"
    /\ ~out.initial
    /\ out.prevErr = "ok"
    /\ \E i \in 1..Len(out.usage) :
          LET r == out.usage[i]
          IN  /\ r.PID \in DOMAIN out.prev
              /\ r.CPUDelta > 0
              /\ processData[r.PID].LastTime
                    = out.prev[r.PID].LastTime + r.CPUDelta

\* C30: a tick of the hybrid run loop whose drain returned an error logs the
\* error and logs no "ActiveProcs" report line.
C30_NoReportOnDrainError ==
    tick.failed => ~tick.reported

\* C29: with -only-isolated, in every tick past the guard the Track calls are
\* those for the drained records on isolated CPUs, all of them made before
\* the first ActiveProcs call; ActiveProcs is called once for each isolated
\* CPU and for no other, also when the drain returned nothing or failed.
C29_TrackThenActiveProcs ==
    body.onlyIsolated =>
        LET IsTrack(c) == c.fn = "Track"
            OnIsolated(r) == Contains(body.isolatedCPUs, r.Cpu)
            drained == SelectSeq(body.activeProcs, OnIsolated)
            wanted == [k \in 1..Len(drained) |->
                          [fn |-> "Track", cpu |-> drained[k].Cpu,
                           pid |-> drained[k].Pid]]
            Asked(cpu) == {k \in 1..Len(calls) :
                              calls[k] = [fn |-> "ActiveProcs", cpu |-> cpu,
                                          pid |-> 0]}
            over == body.pc = "report" \/ (body.pc = "select" /\ body.ticks > 0)
        IN  /\ \A a, b \in 1..Len(calls) :
                  (a < b /\ calls[a].fn = "ActiveProcs") =>
                      calls[b].fn = "ActiveProcs"
            /\ (over \/ \E a \in 1..Len(calls) : calls[a].fn = "ActiveProcs") =>
                  SelectSeq(calls, IsTrack) = wanted
            /\ \A cpu \in CPUs :
                  /\ Cardinality(Asked(cpu)) <= 1
                  /\ ~Contains(body.isolatedCPUs, cpu) => Asked(cpu) = {}
                  /\ (over /\ Contains(body.isolatedCPUs, cpu)) =>
                        Cardinality(Asked(cpu)) = 1

\* a tick whose drain failed has asked both isolated CPUs, after a tick that
\* tracked a process
C29_Witness ==
    /\ body.onlyIsolated
    /\ body.failed
    /\ body.pc = "select"
    /\ body.ticks = 2
    /\ calls = <<[fn |-> "ActiveProcs", cpu |-> 0, pid |-> 0],
                 [fn |-> "ActiveProcs", cpu |-> 1, pid |-> 0]>>
    /\ body.num > 0

\* C31: a pid is in the generation maps of at most one CPU, the CPU that the
\* pid-to-cpu association records for it: tracking it on another CPU takes it
\* out of the first one's maps, and removing it leaves it on no CPU.
C31_OneCpuPerPid ==
    \A p \in Pids, c \in DOMAIN procs :
        p \in (DOMAIN procs[c].currentProcs) \cup (DOMAIN procs[c].previousProcs)
            => (p \in DOMAIN cpus /\ cpus[p] = c)

\* the records that a generation pair holds for the pids other than pid
Others(t, pid) ==
    [currentProcs |-> MapDelete(t.currentProcs, pid),
     previousProcs |-> MapDelete(t.previousProcs, pid)]

\* C32: Track(c, r) and ActiveProcs(c) leave the generation pair and the
\* ActiveProcs answer of every other configured CPU as they were, and the
\* association of every pid other than r's; RemoveTracking(pid) leaves, on
\* every CPU and in the association, what is held for the other pids.
C32_Frame ==
    [][/\ \A c \in CPUs, pid \in Pids :
             Track(c, ActiveProc(pid, c)) =>
                /\ \A d \in (DOMAIN procs) \ {c} :
                      /\ d \in DOMAIN procs'
                      /\ procs'[d] = procs[d]
                      /\ ActiveProcsRet(procs', d) = ActiveProcsRet(procs, d)
                /\ MapDelete(cpus', pid) = MapDelete(cpus, pid)
       /\ \A c \in CPUs :
             ActiveProcs(c) =>
                /\ \A d \in (DOMAIN procs) \ {c} :
                      /\ d \in DOMAIN procs'
                      /\ procs'[d] = procs[d]
                      /\ ActiveProcsRet(procs', d) = ActiveProcsRet(procs, d)
                /\ cpus' = cpus
       /\ \A pid \in Pids :
             RemoveTracking(pid) =>
                /\ DOMAIN procs' = DOMAIN procs
                /\ \A d \in DOMAIN procs :
                      Others(procs'[d], pid) = Others(procs[d], pid)
                /\ MapDelete(cpus', pid) = MapDelete(cpus, pid)]_vars

\* a pid was removed from a CPU on which another pid is still tracked
C32_Witness ==
    \E p \in Pids, q \in Pids, c \in DOMAIN procs :
        /\ p # q
        /\ life[p] = [st |-> "gone", cpu |-> c]
        /\ p \notin DOMAIN procs[c].currentProcs
        /\ q \in DOMAIN procs[c].currentProcs
        /\ cpus = MapPut(EmptyMap, q, c)

\* the number of records in the latest ActiveProcs answers of the CPUs of
\* list, from the k-th on
RECURSIVE Answered(_, _)
Answered(list, k) ==
    IF k > Len(list) THEN 0
    ELSE Cardinality(answer[list[k]]) + Answered(list, k + 1)

\* C33: with -only-isolated, Track is called only for CPUs that were given
\* to Init, so it never writes to a map that was not allocated and the
\* process does not crash; a record of a CPU that is not isolated gets into
\* no generation map and no association, and the reported number counts the
\* records held for isolated CPUs only.
C33_OnlyIsolatedTracked ==
    body.onlyIsolated =>
        /\ ~panicked
        /\ \A k \in 1..Len(calls) :
              calls[k].fn = "Track" =>
                  /\ Contains(body.isolatedCPUs, calls[k].cpu)
                  /\ calls[k].cpu \in DOMAIN procs
        /\ \A c \in DOMAIN procs :
              \A r \in MapValues(procs[c].currentProcs)
                          \cup MapValues(procs[c].previousProcs) :
                  r.Cpu = c /\ Contains(body.isolatedCPUs, c)
        /\ \A p \in DOMAIN cpus : Contains(body.isolatedCPUs, cpus[p])
        /\ body.pc = "report" =>
              /\ body.procsRead = Answered(body.isolatedCPUs, 1)
              /\ \A c \in CPUs : \A r \in answer[c] :
                    r \in NoAnswer \/ Contains(body.isolatedCPUs, r.Cpu)

\* a tick drained a record of CPU 0, which is not isolated, and a record of
\* CPU 1, which is, and counted one process
C33_Witness ==
    /\ body.onlyIsolated
    /\ body.pc = "report"
    /\ body.isolatedCPUs = <<1>>
    /\ Len(body.activeProcs) = 2
    /\ body.activeProcs[1].Cpu = 0
    /\ body.activeProcs[2].Cpu = 1
    /\ body.procsRead = 1
    /\ ~panicked

\* C34: however the calls of Instance() interleave, the load-and-attach
\* sequence starts at most once; a call returns only after it completed, and
\* returns the pair that it left; once completed, failed or not, the pair
\* never changes and the sequence is never started again.
C34_Singleton ==
    /\ [](/\ loads <= 1
          /\ \A g \in Goroutines :
                caller[g].ret # NoPair =>
                    /\ once = "done"
                    /\ caller[g].ret = [instance |-> instance,
                                        initErr |-> initErr]
          /\ once = "done" => ((instance = "nil") <=> (initErr # "nil")))
    /\ [][once = "done" =>
             (once' = "done" /\ instance' = instance /\ initErr' = initErr
                /\ loads' = loads)]_vars

\* two goroutines were in Instance() together: one ran the sequence, which
\* failed, the other waited, and both returned the same error
C34_Witness ==
    /\ loads = 1
    /\ initErr = "attach"
    /\ caller[1].n = 1
    /\ caller[2].n = 1
    /\ caller[1].ret = [instance |-> "nil", initErr |-> "attach"]
    /\ caller[2].ret = caller[1].ret

\* C35: when a batch of a GetActiveProcs call fails with an error other
\* than ErrKeyNotExist, the rows that the earlier batches of the call took
\* out of the table are in what the call hands to its caller.
C35_EarlierBatchesDelivered ==
    [][(runPc = "drain" /\ tick'.failed) =>
          NotReturned(tick.taken, tick'.result) = {}]_vars

====
